---- MODULE Spec2Model ----
(***************************************************************************)
(* Realtime whiteboard: the document synchronisation and recovery engine   *)
(* of server.js (socket handlers room:join and board:ops, the persistence  *)
(* buffer, the snapshot and membership HTTP routes) and tools/restore.js.  *)
(*                                                                         *)
(* The MongoDB collections are the variables boardOps, counters and        *)
(* snapshots (BoardOp, Counter, BoardSnapshot) and the per-board fields of *)
(* the Board collection.  Every await of a handler is a step boundary.     *)
(***************************************************************************)
EXTENDS Integers, Sequences, FiniteSets, TLC

(* ------------------------------ bounds -------------------------------- *)
MaxSubmits == 2      \* board:ops events received in one behaviour of Spec
MaxTx == 2           \* board:ops handlers in flight at the same time
SnapshotEvents == 3  \* snapshot requests and joins in one behaviour of SpecSnapshotRequest
RoomJoins == 4       \* room:join events in one behaviour of SpecRooms
MaxPending == 2      \* room:join handlers of one socket waiting for their board
MaxJoins == 3        \* room:join events received in one behaviour
MaxUuid == 2         \* crypto.randomUUID() calls in one behaviour
MaxReq == 2          \* HTTP requests received in one behaviour
MaxHttp == 2         \* HTTP handlers in flight at the same time
BufferSubmits == 2   \* board:ops events in one behaviour of SpecBuffer
MaxFlush == 2        \* timer callbacks of enqueuePersist in flight at the same time
MaxRestores == 1     \* runs of tools/restore.js in one behaviour
MaxMemberReqs == 2   \* requests to the board and member routes in one behaviour
LiveReqs == 2        \* HTTP requests in one behaviour of SpecExport
ExportReqs == 3      \* export requests in one behaviour of SpecExportAlone
MaxRuns == 2         \* runs of tools/restore.js, one after the other, in SpecRestoreAlone
ExtraOps == 5        \* operations logged after the last checkpoint of the large export
RestoreSubmits == 2  \* board:ops events in one behaviour of SpecRestore

(* --------------------------- program constants ------------------------ *)
SnapshotEvery == 200 \* countOps % 200 === 0

(* ------------------------------ identifiers --------------------------- *)
BoardIds == {"b1", "b2"}
NoBoard == "null"                 \* socket.data.boardId = null
Users == {"u1", "u2", "u3"}
NoUser == "null"                  \* socket.data.userId = null
Sockets == {"s1", "s2", "s3"}
Roles == {"owner", "editor", "viewer"}
Null == "null"                    \* a null / absent document or snapshot
NoId == 0                         \* an operation without opId and op.id
OpIds == 1 .. 3                   \* operation ids chosen by clients
Uuid(n) == 1000 + n               \* the n-th value of crypto.randomUUID()
HistId(i) == 2000 + i             \* the opId of the i-th operation logged
                                  \* before the behaviour starts
TxIds == 1 .. MaxTx
HttpIds == 1 .. MaxHttp
FlushIds == 1 .. MaxFlush

VARIABLES
  boardExists,    \* ids of the documents of the Board collection
  members,        \* Board.members, per board: sequence of [userId, role]
  boardV,         \* Board.__v, the mongoose version key, per board
  docTl,          \* Board.document.tldraw, per board
  docOps,         \* Board.document.ops, per board: sequence of operations
  publicViewerToken, \* Board.publicViewerToken, per board ("" = disabled)
  chat,           \* Board.chat, per board: sequence of [ts, userId, text]
  boardOps,       \* the BoardOp collection, in insertion order
  counters,       \* the Counter collection: board id -> seq, where present
  snapshots,      \* the BoardSnapshot collection, in insertion order
  sock,           \* socket.data of every connected socket
  room,           \* the socket.io board rooms each socket is in
  joinp,          \* room:join handlers waiting for Board.findById
  snapq,          \* board:snapshot:request handlers waiting for Board.findById
  presenceByBoard, \* per board, the sockets that have a presence record
  chatp,          \* chat:message handlers waiting for Board.findByIdAndUpdate
  inbox,          \* board:ops emits delivered to each socket, in order
  lastAck,        \* the last acknowledgment each socket received
  buffers,        \* _buffers: board id -> {ops, snapshot, timer}
  timers,         \* pending setTimeout callbacks of enqueuePersist, per board
  flush,          \* timer callbacks of enqueuePersist waiting at an await
  tx,             \* board:ops handlers past the role check
  http,           \* HTTP handlers waiting at an await
  lastResp,       \* the last HTTP response each user received
  rs,             \* the run of tools/restore.js in progress, if any
  done,           \* history: the runs of tools/restore.js started so far
  nsub, njoin, nreq, nrest,  \* events the behaviour may still receive
  uuid            \* crypto.randomUUID() calls so far

liveVars == <<sock, room, joinp, snapq, presenceByBoard, chatp, inbox, lastAck, nsub, njoin>>
boardVars == <<boardExists, members, boardV, docTl, docOps, publicViewerToken, chat>>
storeVars == <<boardOps, counters, snapshots>>
httpVars == <<http, lastResp, nreq>>
restVars == <<rs, nrest, done>>
bufVars == <<buffers, timers, flush>>
vars == <<boardVars, storeVars, liveVars, httpVars, restVars, bufVars, tx, uuid>>

(* ------------------------------ helpers ------------------------------- *)
Range(s) == {s[i] : i \in DOMAIN s}
SelectIdx(s, P(_)) == {i \in DOMAIN s : P(s[i])}
RemoveAt(s, i) == SubSeq(s, 1, i - 1) \o SubSeq(s, i + 1, Len(s))

\* hashObj = sha256(JSON.stringify(obj || {})): null hashes like {}.
hashObj(obj) ==
  CASE obj = "raw" -> "sha(raw)"
    [] obj = "clean" -> "sha(clean)"
    [] OTHER -> "sha({})"

\* sanitizeTlSnapshotDeep: null for a non-object, else a deep copy in which
\* the document records have a meta object.
sanitizeTlSnapshotDeep(snap) ==
  CASE snap = Null -> Null
    [] snap = "raw" -> "clean"
    [] OTHER -> snap

\* the records of one board, in insertion order
OpsOf(coll, b) == SelectSeq(coll, LAMBDA r : r.boardId = b)
SnapsOf(coll, b) == SelectSeq(coll, LAMBDA r : r.boardId = b)
CounterVal(c, b) == IF b \in DOMAIN c THEN c[b] ELSE 0

\* members.find(m => String(m.userId) === String(u)): index of the first hit
FindMember(ms, u) ==
  LET hit == SelectIdx(ms, LAMBDA m : m.userId = u)
  IN IF hit = {} THEN 0 ELSE CHOOSE i \in hit : \A j \in hit : i <= j

RoleOf(ms, u) == IF FindMember(ms, u) = 0 THEN Null ELSE ms[FindMember(ms, u)].role

(* an operation of a board:ops payload, or a null entry of the ops array *)
Op(o, i, t) == [kind |-> "op", opId |-> o, id |-> i, ts |-> t]
NullItem == [kind |-> "null", opId |-> NoId, id |-> NoId, ts |-> 0]

Batches ==
  { <<>>,
    <<Op(1, 1, 1), Op(2, 2, 1)>>,
    <<Op(2, 2, 2), Op(3, 3, 2), Op(3, 3, 3)>>,
    <<Op(3, 3, 1), NullItem>>,
    <<Op(NoId, 7, 1)>> }

\* a character of a string given as ops: it has no id and no ts
Char == [kind |-> "char", opId |-> NoId, id |-> NoId, ts |-> 0]

\* the payloads of board:ops: {ops, snapshot}; typ is what ops is: an array,
\* a string (ops holds its characters) or an object without length
Payloads ==
  {[ops |-> b, snapshot |-> Null, typ |-> "array"] : b \in Batches}
    \cup {[ops |-> <<>>, snapshot |-> "raw", typ |-> "array"],
          [ops |-> <<Char, Char>>, snapshot |-> Null, typ |-> "string"],
          [ops |-> <<>>, snapshot |-> Null, typ |-> "object"]}

\* payloads whose operations share client ids: x1 at ts 2 twice, x2 at ts 1
\* and 3, x1 at ts 1; one carries a drawing, one a null entry
BufferPayloads ==
  {[ops |-> <<Op(1, 1, 2), Op(2, 2, 1)>>, snapshot |-> Null, typ |-> "array"],
   [ops |-> <<Op(3, 1, 2), Op(1, 2, 3)>>, snapshot |-> Null, typ |-> "array"],
   [ops |-> <<Op(2, 1, 1)>>, snapshot |-> "raw", typ |-> "array"],
   [ops |-> <<Op(3, 3, 1), NullItem>>, snapshot |-> Null, typ |-> "array"]}

NoCounters == [k \in {} |-> 0]
NoBuffers == [k \in {} |-> 0]

IdleTx ==
  [pc |-> "idle", sock |-> "null", boardId |-> NoBoard, author |-> NoUser,
   ops |-> <<>>, typ |-> "array", viewOps |-> 0, viewSnaps |-> 0, viewCounters |-> NoCounters,
   viewTl |-> Null, viewExists |-> FALSE, writes |-> <<>>, snapW |-> <<>>]

IdleFlush ==
  [pc |-> "idle", boardId |-> NoBoard, ops |-> <<>>, snapshot |-> Null,
   cOps |-> <<>>, rTl |-> Null, rOps |-> <<>>]

IdleHttp ==
  [pc |-> "idle", route |-> "none", user |-> NoUser, boardId |-> NoBoard,
   target |-> NoUser, role |-> Null, rMembers |-> <<>>, rV |-> 0,
   rTl |-> Null, rOps |-> <<>>, rChat |-> <<>>, version |-> 0,
   snapFound |-> FALSE, snapTl |-> Null, snapSum |-> ""]

\* an export file: meta.boardId, snapshot, ops, members, chat
Artifact(b, snap, ops, ms) ==
  [boardId |-> b, snapshot |-> snap, ops |-> ops, members |-> ms, chat |-> <<>>]
ChatMsg(t, u, x) == [ts |-> t, userId |-> u, text |-> x]
AOp(o, q, a) == [opId |-> o, seq |-> q, authorId |-> a]
Member(u, r) == [userId |-> u, role |-> r]

IdleRestore ==
  [pc |-> "idle", art |-> Artifact(NoBoard, Null, <<>>, <<>>), found |-> FALSE,
   rMembers |-> <<>>, rV |-> 0, rTl |-> Null, rOps |-> <<>>, rChat |-> <<>>,
   latestVersion |-> 0, i |-> 0, maxSeq |-> 0, docFound |-> FALSE,
   docSeq |-> 0]

NoAck == [ev |-> "none", ok |-> FALSE, info |-> ""]
Ack(ev, ok, info) == [ev |-> ev, ok |-> ok, info |-> info]
NoResp == [route |-> "none", status |-> 0, body |-> Null]

(* ------------------------------- Init --------------------------------- *)
\* board b1 as POST /api/boards and the member routes leave it
InitBoardsWith(ms) ==
  /\ boardExists = {"b1"}
  /\ members = [b \in BoardIds |-> IF b = "b1" THEN ms ELSE <<>>]
  /\ boardV = [b \in BoardIds |-> 0]
  /\ docTl = [b \in BoardIds |-> Null]
  /\ docOps = [b \in BoardIds |-> <<>>]
  /\ publicViewerToken = [b \in BoardIds |-> IF b = "b1" THEN "t1" ELSE ""]
  /\ chat = [b \in BoardIds |-> <<>>]

InitBoards ==
  InitBoardsWith(<<Member("u1", "owner"), Member("u2", "editor"),
                   Member("u3", "viewer")>>)

\* the log of b1 after h operations were logged one batch after the other by
\* u1, none of them ending on a multiple of SnapshotEvery
InitStore(h) ==
  /\ boardOps = [i \in 1 .. h |->
        [boardId |-> "b1", seq |-> i, opId |-> HistId(i), authorId |-> "u1"]]
  /\ counters = IF h = 0 THEN NoCounters ELSE [k \in {"b1"} |-> h]
  /\ snapshots = <<>>

\* the sockets as io.use leaves them at connection
Connected(u3) ==
  [s \in Sockets |->
     [userId |-> CASE s = "s1" -> "u1" [] s = "s2" -> "u2" [] OTHER -> u3,
      boardId |-> NoBoard, role |-> "viewer"]]

InitIdle ==
  /\ joinp = [s \in Sockets |-> <<>>]
  /\ snapq = [s \in Sockets |-> <<>>]
  /\ presenceByBoard = [b \in BoardIds |-> {}]
  /\ chatp = [s \in Sockets |-> <<>>]
  /\ inbox = [s \in Sockets |-> <<>>]
  /\ lastAck = [s \in Sockets |-> NoAck]
  /\ buffers = NoBuffers
  /\ timers = [b \in BoardIds |-> 0]
  /\ flush = [f \in FlushIds |-> IdleFlush]
  /\ tx = [t \in TxIds |-> IdleTx]
  /\ http = [h \in HttpIds |-> IdleHttp]
  /\ lastResp = [u \in Users \cup {NoUser} |-> NoResp]
  /\ rs = IdleRestore
  /\ done = <<>>
  /\ uuid = 0

\* s1 (u1, owner) and s2 (u2, editor) have joined b1; s3 is the viewer u3 or
\* an anonymous socket, joined to b1 (as viewer) or to no room
InitJoined ==
  \E u3 \in {"u3", NoUser}, j3 \in BOOLEAN :
    /\ sock = [s \in Sockets |->
         CASE s = "s1" -> [userId |-> "u1", boardId |-> "b1", role |-> "owner"]
           [] s = "s2" -> [userId |-> "u2", boardId |-> "b1", role |-> "editor"]
           [] OTHER -> [userId |-> u3, boardId |-> IF j3 THEN "b1" ELSE NoBoard,
                        role |-> "viewer"]]
    /\ room = [s \in Sockets |-> IF sock[s].boardId = NoBoard THEN {}
                                 ELSE {sock[s].boardId}]

\* the events a behaviour may receive: board:ops, room:join, HTTP requests,
\* runs of the restore tool
Quota(sub, join, req, rest) ==
  nsub = sub /\ njoin = join /\ nreq = req /\ nrest = rest

Init == InitBoards /\ InitStore(0) /\ InitJoined /\ InitIdle
          /\ Quota(MaxSubmits, 0, 0, 0)

(* ------------------------- socket: room:join -------------------------- *)
Tokens == {"", "t1", "t9"}

\* socket.on('room:join') up to `await Board.findById(boardId).lean()`
RoomJoin(s, b, token) ==
  /\ njoin > 0
  /\ Len(joinp[s]) < MaxPending
  /\ joinp' = [joinp EXCEPT ![s] = Append(@,
        [boardId |-> b, token |-> token, found |-> b \in boardExists,
         members |-> members[b], tok |-> publicViewerToken[b]])]
  /\ njoin' = njoin - 1
  /\ UNCHANGED <<boardVars, httpVars, restVars, storeVars, snapq, presenceByBoard, chatp, sock, room, inbox, lastAck, nsub,
                 bufVars, tx, uuid>>

\* the role room:join resolves from the board it read
JoinRole(s, p) ==
  IF sock[s].userId # NoUser
  THEN LET r == RoleOf(p.members, sock[s].userId)
       IN IF r # Null THEN r ELSE "viewer"
  ELSE "viewer"

JoinRejectedLoose(s, p) ==
  \/ ~p.found
  \/ sock[s].userId = NoUser /\ p.token # p.tok

\* `if (!b) return ...` and, for a socket without user,
\* `if (!(token && token === b.publicViewerToken)) return ...`
JoinRejected(s, p) ==
  \/ ~p.found
  \/ sock[s].userId = NoUser /\ ~(p.token # "" /\ p.token = p.tok)

JoinRoomKeep(r, prev, b) == r \cup {b}

\* `if (socket.data.boardId && socket.data.boardId !== boardId) socket.leave(prev)`
\* and `socket.join(boardId)`
JoinRoom(r, prev, b) ==
  (IF prev # NoBoard /\ prev # b THEN r \ {prev} ELSE r) \cup {b}

\* io.to(b).emit(typ, s): every socket that is in room b according to rooms
Emit(rooms, b, typ, s) ==
  [r \in Sockets |->
     IF b \in rooms[r]
     THEN Append(inbox[r], [typ |-> typ, boardId |-> b, socketId |-> s])
     ELSE inbox[r]]

\* `map && map.delete(socket.id)` in the branch that leaves room prev: the
\* socket had a presence record in the board it leaves
Leaves(s, prev, b) ==
  prev # NoBoard /\ prev # b /\ s \in presenceByBoard[prev]

\* socket.on('room:join') after the await of the i-th waiting handler of the
\* socket (the lookups end in any order): the rest runs without yielding
JoinFinish(s, i) ==
  /\ i \in DOMAIN joinp[s]
  /\ LET p == joinp[s][i]
         prev == sock[s].boardId
     IN
       /\ joinp' = [joinp EXCEPT ![s] = RemoveAt(@, i)]
       /\ IF JoinRejected(s, p)
          THEN /\ lastAck' = [lastAck EXCEPT ![s] =
                     Ack("room:join", FALSE,
                         IF p.found THEN "Unauthenticated" ELSE "Board not found")]
               /\ UNCHANGED <<sock, room, presenceByBoard, inbox>>
          ELSE /\ room' = [room EXCEPT ![s] = JoinRoom(@, prev, p.boardId)]
               /\ sock' = [sock EXCEPT ![s].boardId = p.boardId,
                                       ![s].role = JoinRole(s, p)]
               /\ IF Leaves(s, prev, p.boardId)
                  THEN /\ presenceByBoard' =
                            [presenceByBoard EXCEPT ![prev] = @ \ {s}]
                       /\ inbox' = Emit(room', prev, "presence:leave", s)
                  ELSE UNCHANGED <<presenceByBoard, inbox>>
               /\ lastAck' = [lastAck EXCEPT ![s] =
                     Ack("room:join", TRUE, JoinRole(s, p))]
  /\ UNCHANGED <<boardVars, httpVars, restVars, storeVars, snapq, chatp, nsub, njoin, bufVars, tx, uuid>>

\* Board.findById of room:join rejects: the catch block acknowledges
JoinFail(s, i) ==
  /\ i \in DOMAIN joinp[s]
  /\ joinp' = [joinp EXCEPT ![s] = RemoveAt(@, i)]
  /\ lastAck' = [lastAck EXCEPT ![s] = Ack("room:join", FALSE, "Join failed")]
  /\ UNCHANGED <<boardVars, httpVars, restVars, storeVars, snapq, presenceByBoard, chatp, sock, room, inbox,
                 nsub, njoin, bufVars, tx, uuid>>

(* ------------------------ socket: presence:join ----------------------- *)
\* socket.on('presence:join') with user.boardId = ib: the record is kept under
\* the board of the socket, or under ib when the socket has none; the roster
\* goes to the socket, the announcement to the room
PresenceJoin(s, ib) ==
  /\ njoin > 0
  /\ njoin' = njoin - 1
  /\ LET b == IF sock[s].boardId # NoBoard THEN sock[s].boardId ELSE ib IN
       IF b = NoBoard THEN UNCHANGED <<presenceByBoard, inbox>>
       ELSE /\ presenceByBoard' = [presenceByBoard EXCEPT ![b] = @ \cup {s}]
            /\ inbox' =
                 [r \in Sockets |->
                    inbox[r]
                    \o (IF r = s
                        THEN <<[typ |-> "presence:roster", boardId |-> b,
                                roster |-> presenceByBoard[b] \cup {s}]>>
                        ELSE <<>>)
                    \o (IF b \in room[r]
                        THEN <<[typ |-> "presence:join", boardId |-> b,
                                socketId |-> s]>>
                        ELSE <<>>)]
  /\ UNCHANGED <<boardVars, httpVars, restVars, storeVars, sock, room, joinp, snapq, chatp,
                 lastAck, nsub, bufVars, tx, uuid>>

(* -------------------- socket: board:snapshot:request ------------------ *)
SnapshotResponseRaw(b, found, tl, ops) ==
  [typ |-> "board:snapshot:response", boardId |-> b,
   doc |-> IF found THEN [tldraw |-> tl, ops |-> ops] ELSE Null]

\* { boardId, doc }: doc is b.document with its tldraw sanitised, or null
SnapshotResponse(b, found, tl, ops) ==
  [typ |-> "board:snapshot:response", boardId |-> b,
   doc |-> IF found THEN [tldraw |-> sanitizeTlSnapshotDeep(tl), ops |-> ops]
           ELSE Null]

\* socket.on('board:snapshot:request') up to `await Board.findById(boardId)`
SnapshotRequest(s) ==
  /\ njoin > 0
  /\ Len(snapq[s]) < MaxPending
  /\ njoin' = njoin - 1
  /\ LET b == sock[s].boardId IN
       IF b = NoBoard
       THEN /\ lastAck' = [lastAck EXCEPT ![s] = Ack("board:snapshot:request", FALSE, "")]
            /\ UNCHANGED snapq
       ELSE /\ snapq' = [snapq EXCEPT ![s] = Append(@,
                 [boardId |-> b, found |-> b \in boardExists,
                  tl |-> docTl[b], ops |-> docOps[b]])]
            /\ UNCHANGED lastAck
  /\ UNCHANGED <<boardVars, httpVars, restVars, storeVars, sock, room, joinp, presenceByBoard, chatp, inbox,
                 nsub, bufVars, tx, uuid>>

\* the rest of the handler: socket.emit('board:snapshot:response', ...), ack
SnapshotRespond(s, i) ==
  /\ i \in DOMAIN snapq[s]
  /\ LET p == snapq[s][i] IN
       inbox' = [inbox EXCEPT ![s] =
                   Append(@, SnapshotResponse(p.boardId, p.found, p.tl, p.ops))]
  /\ snapq' = [snapq EXCEPT ![s] = RemoveAt(@, i)]
  /\ lastAck' = [lastAck EXCEPT ![s] = Ack("board:snapshot:request", TRUE, "")]
  /\ UNCHANGED <<boardVars, httpVars, restVars, storeVars, sock, room, joinp, presenceByBoard, chatp,
                 nsub, njoin, bufVars, tx, uuid>>

\* Board.findById rejects: the handler has no catch, the rejection is logged
\* by the process and the socket gets neither response nor acknowledgment
SnapshotRequestFail(s, i) ==
  /\ i \in DOMAIN snapq[s]
  /\ snapq' = [snapq EXCEPT ![s] = RemoveAt(@, i)]
  /\ UNCHANGED <<boardVars, httpVars, restVars, storeVars, sock, room, joinp, presenceByBoard, chatp, inbox,
                 lastAck, nsub, njoin, bufVars, tx, uuid>>

(* ------------------------- persistence buffer ------------------------- *)
\* enqueuePersist(boardId, ops, snapshot), up to the timer callback
enqueuePersist(bufs, b, ops, snapshot) ==
  LET buf == IF b \in DOMAIN bufs THEN bufs[b]
             ELSE [ops |-> <<>>, snapshot |-> Null, timer |-> FALSE]
      buf2 == [ops |-> buf.ops \o ops,
               snapshot |-> IF snapshot # Null THEN snapshot ELSE buf.snapshot,
               timer |-> TRUE]
  IN [k \in DOMAIN bufs \cup {b} |-> IF k = b THEN buf2 ELSE bufs[k]]

ArmTimerAlways(tm, bufs, b) == [tm EXCEPT ![b] = @ + 1]

\* if (!buf.timer) buf.timer = setTimeout(..., 150)
ArmTimer(tm, bufs, b) ==
  IF b \in DOMAIN bufs /\ bufs[b].timer THEN tm ELSE [tm EXCEPT ![b] = @ + 1]

\* the one element of a set that has one: names a value that is used several
\* times
Only(S) == CHOOSE r \in S : TRUE

\* map.set(op.id, op) of mergeOps on the Map as the sequence of its values in
\* insertion order: an op replaces the value of its id when its ts is not
\* below the one held
MapPut(acc, op) ==
  LET hit == SelectIdx(acc, LAMBDA x : x.id = op.id)
      k == IF hit = {} THEN 0 ELSE CHOOSE i \in hit : TRUE
  IN IF k = 0 THEN Append(acc, op)
     ELSE IF op.kind = "op" /\ acc[k].kind = "op" /\ op.ts >= acc[k].ts
          THEN [acc EXCEPT ![k] = op]
          ELSE acc

\* the two for loops of mergeOps over existing and incoming
RECURSIVE MapSet(_, _)
MapSet(acc, rest) ==
  IF rest = <<>> THEN acc
  ELSE Only({MapSet(MapPut(a, Head(rest)), Tail(rest)) : a \in {acc}})

\* x placed behind the last element of the sorted list that does not compare
\* greater; a pair without ts compares equal
InsertByTs(sorted, x) ==
  LET after == {i \in DOMAIN sorted :
                  sorted[i].kind = "op" /\ x.kind = "op" /\ sorted[i].ts > x.ts}
      k == IF after = {} THEN Len(sorted) + 1
           ELSE CHOOSE i \in after : \A j \in after : i <= j
  IN SubSeq(sorted, 1, k - 1) \o <<x>> \o SubSeq(sorted, k, Len(sorted))

\* .sort((a, b) => a.ts - b.ts): stable
RECURSIVE SortByTs(_)
SortByTs(ops) ==
  IF ops = <<>> THEN <<>>
  ELSE Only({InsertByTs(sorted, ops[Len(ops)]) :
               sorted \in {SortByTs(SubSeq(ops, 1, Len(ops) - 1))}})

mergeOpsConcat(existing, incoming) == existing \o incoming

\* mergeOps(existing, incoming)
mergeOps(existing, incoming) ==
  Only({SortByTs(map) : map \in {MapSet(<<>>, existing \o incoming)}})

\* `op.id` of a null entry throws a TypeError
MergeThrows(existing, incoming) ==
  \E i \in DOMAIN incoming : incoming[i].kind = "null"

FreeFlush == {f \in FlushIds : flush[f].pc = "idle"}

TimerFireKeep(b) ==
  /\ timers[b] > 0
  /\ FreeFlush # {}
  /\ timers' = [timers EXCEPT ![b] = @ - 1]
  /\ UNCHANGED buffers
  /\ IF b \in DOMAIN buffers
     THEN flush' = [flush EXCEPT ![CHOOSE x \in FreeFlush : \A y \in FreeFlush : x <= y] =
                      [IdleFlush EXCEPT !.pc = "read", !.boardId = b,
                                        !.ops = buffers[b].ops,
                                        !.snapshot = buffers[b].snapshot]]
     ELSE UNCHANGED flush
  /\ UNCHANGED <<boardVars, storeVars, liveVars, httpVars, restVars, tx, uuid>>

\* the timer callback of enqueuePersist up to `await Board.findById(boardId)`
TimerFire(b) ==
  /\ timers[b] > 0
  /\ FreeFlush # {}
  /\ timers' = [timers EXCEPT ![b] = @ - 1]
  /\ buffers' = [k \in DOMAIN buffers \ {b} |-> buffers[k]]
  /\ IF b \in DOMAIN buffers
     THEN flush' = [flush EXCEPT ![CHOOSE x \in FreeFlush : \A y \in FreeFlush : x <= y] =
                      [IdleFlush EXCEPT !.pc = "read", !.boardId = b,
                                        !.ops = buffers[b].ops,
                                        !.snapshot = buffers[b].snapshot]]
     ELSE UNCHANGED flush
  /\ UNCHANGED <<boardVars, storeVars, liveVars, httpVars, restVars, tx, uuid>>

\* the timer callback from the board it read to
\* `await Board.findByIdAndUpdate(boardId, { $set: { document: doc } })`
FlushRead(f) ==
  /\ flush[f].pc = "read"
  /\ LET b == flush[f].boardId
         found == b \in boardExists
         ops == IF found THEN docOps[b] ELSE <<>>
         tl == IF found THEN docTl[b] ELSE Null
         safe == sanitizeTlSnapshotDeep(flush[f].snapshot)
     IN flush' = [flush EXCEPT ![f] =
          IF MergeThrows(ops, flush[f].ops) THEN IdleFlush
          ELSE [@ EXCEPT !.pc = "write",
                         !.cOps = ops,
                         !.rOps = mergeOps(ops, flush[f].ops),
                         !.rTl = IF flush[f].snapshot # Null /\ safe # Null
                                 THEN safe ELSE tl]]
  /\ UNCHANGED <<boardVars, storeVars, liveVars, httpVars, restVars, buffers,
                 timers, tx, uuid>>

\* Board.findByIdAndUpdate(boardId, { $set: { document: doc } }); the slot
\* keeps the locals of the callback that ended until the next one takes it
FlushWrite(f) ==
  /\ flush[f].pc = "write"
  /\ LET b == flush[f].boardId IN
       IF b \in boardExists
       THEN /\ docOps' = [docOps EXCEPT ![b] = flush[f].rOps]
            /\ docTl' = [docTl EXCEPT ![b] = flush[f].rTl]
       ELSE UNCHANGED <<docOps, docTl>>
  /\ flush' = [flush EXCEPT ![f].pc = "idle"]
  /\ UNCHANGED <<boardExists, members, boardV, publicViewerToken, chat, storeVars,
                 liveVars, httpVars, restVars, buffers, timers, tx, uuid>>

FlushFailRetry(f) ==
  /\ flush[f].pc \in {"read", "write"}
  /\ flush' = [flush EXCEPT ![f] = IdleFlush]
  /\ buffers' = enqueuePersist(buffers, flush[f].boardId, flush[f].ops,
                               flush[f].snapshot)
  /\ timers' = ArmTimer(timers, buffers, flush[f].boardId)
  /\ UNCHANGED <<boardVars, storeVars, liveVars, httpVars, restVars, tx, uuid>>

\* an await of the timer callback rejects: the catch block logs
FlushFail(f) ==
  /\ flush[f].pc \in {"read", "write"}
  /\ flush' = [flush EXCEPT ![f] = IdleFlush]
  /\ UNCHANGED <<boardVars, storeVars, liveVars, httpVars, restVars, buffers,
                 timers, tx, uuid>>

(* ------------------------- socket: board:ops -------------------------- *)
CanWriteAny(s) == TRUE

CanWriteMember(s) ==
  /\ sock[s].boardId # NoBoard
  /\ RoleOf(members[sock[s].boardId], sock[s].userId) \in {"owner", "editor"}

\* ['owner', 'editor'].includes(socket.data.role)
CanWrite(s) == sock[s].role \in {"owner", "editor"}

\* board:ops from a socket without room or without a writer role
OpsReject(s, payload) ==
  /\ nsub > 0
  /\ sock[s].boardId = NoBoard \/ ~CanWrite(s)
  /\ nsub' = nsub - 1
  /\ lastAck' = [lastAck EXCEPT ![s] =
        Ack("board:ops", FALSE,
            IF sock[s].boardId = NoBoard THEN "no-room" ELSE "read-only")]
  /\ UNCHANGED <<boardVars, httpVars, restVars, storeVars, sock, room, joinp, snapq, presenceByBoard, chatp, inbox, njoin,
                 bufVars, tx, uuid>>

BroadcastNone(s, b, msg) == inbox

BroadcastAll(s, b, msg) ==
  [r \in Sockets |-> IF b \in room[r] THEN Append(inbox[r], msg) ELSE inbox[r]]

\* socket.to(boardId).emit('board:ops', ...): every socket of the room but s
Broadcast(s, b, msg) ==
  [r \in Sockets |-> IF r # s /\ b \in room[r] THEN Append(inbox[r], msg)
                     ELSE inbox[r]]

FreeTx == {t \in TxIds : tx[t].pc = "idle"}

\* board:ops from a writer: broadcast, enqueuePersist, then
\* `await mongoose.startSession()`
OpsReceive(s, payload) ==
  /\ nsub > 0
  /\ sock[s].boardId # NoBoard /\ CanWrite(s)
  /\ FreeTx # {}
  /\ LET t == CHOOSE x \in FreeTx : \A y \in FreeTx : x <= y
         b == sock[s].boardId
         ops == payload.ops
         snapshot == payload.snapshot
     IN /\ inbox' = Broadcast(s, b, [from |-> s, boardId |-> b, ops |-> ops,
                                     snapshot |-> snapshot, typ |-> payload.typ])
        /\ buffers' = enqueuePersist(buffers, b, ops, snapshot)
        /\ timers' = ArmTimer(timers, buffers, b)
        /\ UNCHANGED flush
        /\ tx' = [tx EXCEPT ![t] = [IdleTx EXCEPT !.pc = "start", !.sock = s,
                                     !.boardId = b, !.author = sock[s].userId,
                                     !.ops = ops, !.typ = payload.typ]]
  /\ nsub' = nsub - 1
  /\ UNCHANGED <<boardVars, httpVars, restVars, storeVars, sock, room, joinp, snapq, presenceByBoard, chatp, lastAck, njoin, uuid>>

\* session.withTransaction starts (or restarts) the callback: the reads of
\* the transaction see the collections as they are now, plus its own writes
TxBegin(t) ==
  /\ tx[t].pc = "start"
  /\ tx' = [tx EXCEPT ![t].pc = "run",
                      ![t].viewOps = Len(boardOps),
                      ![t].viewSnaps = Len(snapshots),
                      ![t].viewCounters = counters,
                      ![t].viewTl = docTl[tx[t].boardId],
                      ![t].viewExists = tx[t].boardId \in boardExists,
                      ![t].writes = <<>>, ![t].snapW = <<>>]
  /\ UNCHANGED <<boardVars, httpVars, restVars, storeVars, liveVars, bufVars, uuid>>

\* the counter document of board b is write-locked by an open transaction
CounterLocked(b, t) ==
  \E o \in TxIds : o # t /\ tx[o].pc = "commit" /\ tx[o].boardId = b
                         /\ tx[o].writes # <<>>

NoCounterConflict(t) == FALSE

\* nextBoardSeq inside the session: the $inc of the counter document meets a
\* write conflict when the document changed after the transaction's reads
\* began or is written by another open transaction
CounterConflict(t) ==
  \/ counters # tx[t].viewCounters
  \/ CounterLocked(tx[t].boardId, t)

SeenNothing(t, writes) == {}

\* BoardOp.findOne({ boardId, opId }).session(session): the opIds the
\* transaction can see, those of its view and those it created itself
Seen(t, writes) ==
  {r.opId : r \in Range(OpsOf(SubSeq(boardOps, 1, tx[t].viewOps), tx[t].boardId))}
    \cup {w.opId : w \in Range(writes)}

\* the opIds inserted for the board after the transaction's reads began: the
\* unique index {boardId, opId} refuses a second record for any of them
InsertedLater(t) ==
  {r.opId : r \in Range(OpsOf(SubSeq(boardOps, tx[t].viewOps + 1, Len(boardOps)),
                              tx[t].boardId))}

nextBoardSeqOld(t, writes) ==
  CounterVal(tx[t].viewCounters, tx[t].boardId) + Len(writes)

\* nextBoardSeq: findOneAndUpdate({$inc: {seq: 1}}, {new: true, upsert: true});
\* `writes` are the records the transaction has numbered so far
nextBoardSeq(t, writes) ==
  CounterVal(tx[t].viewCounters, tx[t].boardId) + Len(writes) + 1

\* one pass of the for loop of the transaction callback
LoopStep(t, acc, item) ==
  IF acc.st # "ok" THEN acc
  ELSE IF item.kind = "null" THEN [acc EXCEPT !.st = "throw"]
  ELSE
    LET fresh == item.opId = NoId
        opId == IF fresh THEN Uuid(acc.uu + 1) ELSE item.opId
        acc1 == IF fresh THEN [acc EXCEPT !.uu = @ + 1] ELSE acc
    IN IF opId \in Seen(t, acc.writes) THEN acc1
       ELSE IF acc.writes = <<>> /\ CounterConflict(t)
            THEN [acc1 EXCEPT !.st = "conflict"]
       ELSE IF opId \in InsertedLater(t) THEN [acc1 EXCEPT !.st = "conflict"]
       ELSE [acc1 EXCEPT !.writes = Append(@,
               [boardId |-> tx[t].boardId,
                seq |-> nextBoardSeq(t, acc.writes),
                opId |-> opId, authorId |-> tx[t].author])]

RECURSIVE Loop(_, _, _, _)
Loop(t, acc, items, i) ==
  IF i > Len(items) THEN acc ELSE Loop(t, LoopStep(t, acc, items[i]), items, i + 1)

\* (ops || []).map(...) and the for loop: a value without map throws
Callback(t) ==
  IF tx[t].typ # "array" THEN [st |-> "throw", writes |-> <<>>, uu |-> uuid]
  ELSE Loop(t, [st |-> "ok", writes |-> <<>>, uu |-> uuid], tx[t].ops, 1)

CheckpointBeforeInsert(t, writes) ==
  LET b == tx[t].boardId
      countOps == Len(OpsOf(SubSeq(boardOps, 1, tx[t].viewOps), b))
      count == Len(SnapsOf(SubSeq(snapshots, 1, tx[t].viewSnaps), b))
  IN IF countOps % SnapshotEvery = 0 /\ tx[t].viewExists
     THEN <<[boardId |-> b, version |-> count + 1, tldraw |-> tx[t].viewTl,
             checksum |-> hashObj(tx[t].viewTl)]>>
     ELSE <<>>

\* the checkpoint at the end of the transaction callback: countDocuments and
\* Board.findById read through the session
Checkpoint(t, writes) ==
  LET b == tx[t].boardId
      countOps == Len(OpsOf(SubSeq(boardOps, 1, tx[t].viewOps), b)) + Len(writes)
      count == Len(SnapsOf(SubSeq(snapshots, 1, tx[t].viewSnaps), b))
  IN IF countOps % SnapshotEvery = 0 /\ tx[t].viewExists
     THEN <<[boardId |-> b, version |-> count + 1, tldraw |-> tx[t].viewTl,
             checksum |-> hashObj(tx[t].viewTl)]>>
     ELSE <<>>

\* the transaction callback runs against its view: it throws on a null entry,
\* meets a write conflict (withTransaction then runs it again), or leaves its
\* writes ready to commit
TxRun(t) ==
  /\ tx[t].pc = "run"
  /\ LET res == Callback(t)
     IN /\ res.uu <= MaxUuid
        /\ uuid' = res.uu
        /\ CASE res.st = "ok" ->
                  /\ tx' = [tx EXCEPT ![t].pc = "commit", ![t].writes = res.writes,
                                      ![t].snapW = Checkpoint(t, res.writes)]
                  /\ UNCHANGED lastAck
             [] res.st = "conflict" ->
                  /\ tx' = [tx EXCEPT ![t].pc = "start"]
                  /\ UNCHANGED lastAck
             [] OTHER ->
                  /\ tx' = [tx EXCEPT ![t] = IdleTx]
                  /\ lastAck' = [lastAck EXCEPT ![tx[t].sock] =
                        Ack("board:ops", FALSE, "persist failed")]
  /\ UNCHANGED <<boardVars, httpVars, restVars, storeVars, sock, room, joinp, snapq, presenceByBoard, chatp, inbox, nsub, njoin,
                 bufVars>>

\* commitTransaction: the writes of the transaction become visible together
TxCommit(t) ==
  /\ tx[t].pc = "commit"
  /\ boardOps' = boardOps \o tx[t].writes
  /\ counters' =
       IF tx[t].writes = <<>> THEN counters
       ELSE [k \in DOMAIN counters \cup {tx[t].boardId} |->
               IF k = tx[t].boardId
               THEN CounterVal(counters, k) + Len(tx[t].writes)
               ELSE counters[k]]
  /\ snapshots' = snapshots \o tx[t].snapW
  /\ lastAck' = [lastAck EXCEPT ![tx[t].sock] = Ack("board:ops", TRUE, "")]
  /\ tx' = [tx EXCEPT ![t] = IdleTx]
  /\ UNCHANGED <<boardVars, httpVars, restVars, sock, room, joinp, snapq, presenceByBoard, chatp, inbox, nsub, njoin, bufVars, uuid>>

TxAbortLeak(t) ==
  /\ tx[t].pc \in {"start", "run", "commit"}
  /\ boardOps' = boardOps \o tx[t].writes
  /\ tx' = [tx EXCEPT ![t] = IdleTx]
  /\ lastAck' = [lastAck EXCEPT ![tx[t].sock] =
        Ack("board:ops", FALSE, "persist failed")]
  /\ UNCHANGED <<boardVars, httpVars, restVars, counters, snapshots, sock, room, joinp,
                 snapq, presenceByBoard, chatp, inbox, nsub, njoin, bufVars, uuid>>

\* the session or the transaction fails against storage: everything the
\* transaction wrote is discarded and the catch block answers
TxAbort(t) ==
  /\ tx[t].pc \in {"start", "run", "commit"}
  /\ tx' = [tx EXCEPT ![t] = IdleTx]
  /\ lastAck' = [lastAck EXCEPT ![tx[t].sock] =
        Ack("board:ops", FALSE, "persist failed")]
  /\ UNCHANGED <<boardVars, httpVars, restVars, storeVars, sock, room, joinp, snapq, presenceByBoard, chatp, inbox, nsub, njoin,
                 bufVars, uuid>>

\* BoardSnapshot.create([...], { session }) of the checkpoint rejects: the
\* callback throws, withTransaction aborts and the catch block answers
CheckpointFails(t) ==
  /\ tx[t].pc = "commit" /\ tx[t].snapW # <<>>
  /\ TxAbort(t)

(* --------------------- POST /api/boards/:id/snapshots ----------------- *)
FreeHttp == {h \in HttpIds : http[h].pc = "idle"}
Resp(route, status) == [route |-> route, status |-> status, body |-> Null]
IsMember(ms, u) == \E i \in DOMAIN ms : ms[i].userId = u

\* "snapshot now" up to `await BoardSnapshot.countDocuments`: the board is
\* read, the requester checked, the drawing sanitised
SnapshotRead(u, b) ==
  /\ nreq > 0
  /\ FreeHttp # {}
  /\ nreq' = nreq - 1
  /\ LET h == CHOOSE x \in FreeHttp : \A y \in FreeHttp : x <= y IN
       IF b \notin boardExists
       THEN /\ lastResp' = [lastResp EXCEPT ![u] = Resp("snapshots", 404)]
            /\ UNCHANGED http
       ELSE IF ~IsMember(members[b], u)
       THEN /\ lastResp' = [lastResp EXCEPT ![u] = Resp("snapshots", 403)]
            /\ UNCHANGED http
       ELSE /\ http' = [http EXCEPT ![h] =
                  [IdleHttp EXCEPT !.pc = "count", !.route = "snapshots",
                                   !.user = u, !.boardId = b,
                                   !.rTl = sanitizeTlSnapshotDeep(docTl[b]),
                                   !.rOps = docOps[b]]]
            /\ UNCHANGED lastResp
  /\ UNCHANGED <<boardVars, storeVars, liveVars, restVars, bufVars, tx, uuid>>

\* version = (await BoardSnapshot.countDocuments({ boardId })) + 1
SnapshotCount(h) ==
  /\ http[h].pc = "count"
  /\ http' = [http EXCEPT ![h].pc = "create",
                          ![h].version = Len(SnapsOf(snapshots, http[h].boardId)) + 1]
  /\ UNCHANGED <<boardVars, storeVars, liveVars, restVars, lastResp, nreq, bufVars, tx, uuid>>

SnapshotCreateStale(h) ==
  /\ http[h].pc = "create"
  /\ snapshots' = Append(snapshots,
        [boardId |-> http[h].boardId, version |-> http[h].version,
         tldraw |-> http[h].rTl, checksum |-> hashObj(docTl[http[h].boardId])])
  /\ http' = [http EXCEPT ![h].pc = "save"]
  /\ UNCHANGED <<boardVars, boardOps, counters, liveVars, restVars, lastResp,
                 nreq, bufVars, tx, uuid>>

\* await BoardSnapshot.create({ boardId, version, tldraw, checksum })
SnapshotCreate(h) ==
  /\ http[h].pc = "create"
  /\ snapshots' = Append(snapshots,
        [boardId |-> http[h].boardId, version |-> http[h].version,
         tldraw |-> http[h].rTl, checksum |-> hashObj(http[h].rTl)])
  /\ http' = [http EXCEPT ![h].pc = "save"]
  /\ UNCHANGED <<boardVars, boardOps, counters, liveVars, restVars, lastResp,
                 nreq, bufVars, tx, uuid>>

\* board.document = {...board.document, updatedAt, tldraw}; await board.save()
SnapshotSave(h) ==
  /\ http[h].pc = "save"
  /\ docTl' = [docTl EXCEPT ![http[h].boardId] = http[h].rTl]
  /\ docOps' = [docOps EXCEPT ![http[h].boardId] = http[h].rOps]
  /\ lastResp' = [lastResp EXCEPT ![http[h].user] = Resp("snapshots", 200)]
  /\ http' = [http EXCEPT ![h] = IdleHttp]
  /\ UNCHANGED <<boardExists, members, boardV, publicViewerToken, chat, storeVars,
                 liveVars, restVars, nreq, bufVars, tx, uuid>>

\* one of the awaits of "snapshot now" rejects: the catch block answers 500
SnapshotFail(h) ==
  /\ http[h].pc \in {"count", "create", "save"}
  /\ lastResp' = [lastResp EXCEPT ![http[h].user] = Resp("snapshots", 500)]
  /\ http' = [http EXCEPT ![h] = IdleHttp]
  /\ UNCHANGED <<boardVars, storeVars, liveVars, restVars, nreq, bufVars, tx, uuid>>

(* --------------------- GET /api/boards/:id/export --------------------- *)
\* BoardSnapshot.findOne({ boardId }).sort({ version: -1 }): the index
\* { boardId: 1, version: -1 } is walked forward, records of one version come
\* in insertion order; the empty sequence stands for null
LatestSnap(b) ==
  LET snaps == SnapsOf(snapshots, b)
      top == {i \in DOMAIN snaps : \A j \in DOMAIN snaps : snaps[j].version <= snaps[i].version}
  IN IF snaps = <<>> THEN <<>>
     ELSE <<snaps[CHOOSE i \in top : \A j \in top : i <= j]>>

\* .sort({ seq: 1 }): records of one seq stay in insertion order (a list
\* already in order is returned as it is)
RECURSIVE SortBySeq(_)
SortBySeq(ops) ==
  IF \A i \in 1 .. Len(ops) - 1 : ops[i].seq <= ops[i + 1].seq THEN ops
  ELSE LET n == Len(ops)
           sorted == SortBySeq(SubSeq(ops, 1, n - 1))
           x == ops[n]
           after == {i \in DOMAIN sorted : sorted[i].seq > x.seq}
           k == IF after = {} THEN Len(sorted) + 1
                ELSE CHOOSE i \in after : \A j \in after : i <= j
       IN SubSeq(sorted, 1, k - 1) \o <<x>> \o SubSeq(sorted, k, Len(sorted))

ExportBodyStamped(h, ops) ==
  LET snapshot == IF http[h].snapFound /\ http[h].snapTl # Null
                  THEN http[h].snapTl ELSE http[h].rTl
  IN [baseVersion |-> http[h].version,
      checksum |-> IF http[h].snapFound /\ http[h].snapSum # "" THEN http[h].snapSum
                   ELSE IF snapshot # Null THEN hashObj(snapshot) ELSE "",
      snapshot |-> snapshot, ops |-> ops,
      members |-> http[h].rMembers, chat |-> http[h].rChat, exportedAt |-> nreq]

\* the payload of the export without meta.exportedAt, boardId and title
ExportBody(h, ops) ==
  LET snapshot == IF http[h].snapFound /\ http[h].snapTl # Null
                  THEN http[h].snapTl ELSE http[h].rTl
  IN [baseVersion |-> http[h].version,
      checksum |-> IF http[h].snapFound /\ http[h].snapSum # "" THEN http[h].snapSum
                   ELSE IF snapshot # Null THEN hashObj(snapshot) ELSE "",
      snapshot |-> snapshot, ops |-> ops,
      members |-> http[h].rMembers, chat |-> http[h].rChat]

\* the export up to `await BoardSnapshot.findOne`: the board is read and the
\* requester checked
ExportRead(u, b) ==
  /\ nreq > 0
  /\ FreeHttp # {}
  /\ nreq' = nreq - 1
  /\ LET h == CHOOSE x \in FreeHttp : \A y \in FreeHttp : x <= y IN
       IF b \notin boardExists
       THEN /\ lastResp' = [lastResp EXCEPT ![u] = Resp("export", 404)]
            /\ UNCHANGED http
       ELSE IF ~IsMember(members[b], u)
       THEN /\ lastResp' = [lastResp EXCEPT ![u] = Resp("export", 403)]
            /\ UNCHANGED http
       ELSE /\ http' = [http EXCEPT ![h] =
                  [IdleHttp EXCEPT !.pc = "snap", !.route = "export",
                                   !.user = u, !.boardId = b,
                                   !.rMembers = members[b], !.rTl = docTl[b],
                                   !.rChat = chat[b]]]
            /\ UNCHANGED lastResp
  /\ UNCHANGED <<boardVars, storeVars, liveVars, restVars, bufVars, tx, uuid>>

\* latestSnap = await BoardSnapshot.findOne({ boardId }).sort({ version: -1 })
ExportSnap(h) ==
  /\ http[h].pc = "snap" /\ http[h].route = "export"
  /\ LET latestSnap == LatestSnap(http[h].boardId) IN
       http' = [http EXCEPT ![h] =
         IF latestSnap = <<>> THEN [@ EXCEPT !.pc = "ops"]
         ELSE [@ EXCEPT !.pc = "ops", !.snapFound = TRUE,
                        !.version = latestSnap[1].version,
                        !.snapTl = latestSnap[1].tldraw,
                        !.snapSum = latestSnap[1].checksum]]
  /\ UNCHANGED <<boardVars, storeVars, liveVars, restVars, lastResp, nreq,
                 bufVars, tx, uuid>>

\* ops = await BoardOp.find({ boardId }).sort({ seq: 1 }), then the response
ExportOps(h) ==
  /\ http[h].pc = "ops" /\ http[h].route = "export"
  /\ lastResp' = [lastResp EXCEPT ![http[h].user] =
        [Resp("export", 200) EXCEPT
           !.body = ExportBody(h, SortBySeq(OpsOf(boardOps, http[h].boardId)))]]
  /\ http' = [http EXCEPT ![h] = IdleHttp]
  /\ UNCHANGED <<boardVars, storeVars, liveVars, restVars, nreq, bufVars, tx, uuid>>

\* one of the awaits of the export rejects: the catch block answers 500
ExportFail(h) ==
  /\ http[h].pc \in {"snap", "ops"} /\ http[h].route = "export"
  /\ lastResp' = [lastResp EXCEPT ![http[h].user] = Resp("export", 500)]
  /\ http' = [http EXCEPT ![h] = IdleHttp]
  /\ UNCHANGED <<boardVars, storeVars, liveVars, restVars, nreq, bufVars, tx, uuid>>

(* ------------------------ members and roles --------------------------- *)
\* the first free handler slot
NewHttp == CHOOSE x \in FreeHttp : \A y \in FreeHttp : x <= y

\* the handler of slot h has read board b as it is now
ReadBoard(route, u, b, target, role) ==
  [IdleHttp EXCEPT !.pc = "save", !.route = route, !.user = u, !.boardId = b,
                   !.target = target, !.role = role,
                   !.rMembers = members[b], !.rV = boardV[b]]

Owners(ms) == SelectIdx(ms, LAMBDA x : x.role = "owner")

NeverLastOwner(ms) == FALSE

\* owners = b.members.filter(x => x.role === 'owner'); owners.length <= 1
LastOwner(ms) == Cardinality(Owners(ms)) <= 1

\* the handler rejected without an answer (a rejected await outside try)
Rejected(route) == Resp(route, 0)

\* save() of a document whose only change is members.k.role: a $set of that
\* path, applied only if __v is still the one that was read
SaveRole(h, k, role) ==
  LET b == http[h].boardId IN
    IF http[h].rMembers[k].role = role
    THEN /\ lastResp' = [lastResp EXCEPT ![http[h].user] = Resp(http[h].route, 200)]
         /\ UNCHANGED <<members, boardV>>
    ELSE IF boardV[b] # http[h].rV
    THEN /\ lastResp' = [lastResp EXCEPT ![http[h].user] = Rejected(http[h].route)]
         /\ UNCHANGED <<members, boardV>>
    ELSE /\ members' = [members EXCEPT ![b][k].role = role]
         /\ lastResp' = [lastResp EXCEPT ![http[h].user] = Resp(http[h].route, 200)]
         /\ UNCHANGED boardV

\* save() after b.members.push(m): a $push and an increment of __v
SavePush(h, m) ==
  LET b == http[h].boardId IN
    /\ members' = [members EXCEPT ![b] = Append(@, m)]
    /\ boardV' = [boardV EXCEPT ![b] = @ + 1]
    /\ lastResp' = [lastResp EXCEPT ![http[h].user] = Resp(http[h].route, 200)]

\* GET /api/boards/:id up to `await b.save()`
GetBoard(u, b, token) ==
  /\ nreq > 0 /\ FreeHttp # {}
  /\ nreq' = nreq - 1
  /\ IF b \notin boardExists
     THEN /\ lastResp' = [lastResp EXCEPT ![u] = Resp("get-board", 404)]
          /\ UNCHANGED http
     ELSE IF u # NoUser /\ ~IsMember(members[b], u)
     THEN /\ http' = [http EXCEPT ![NewHttp] = ReadBoard("get-board", u, b, u, "editor")]
          /\ UNCHANGED lastResp
     ELSE IF u = NoUser /\ ~(token # "" /\ token = publicViewerToken[b])
     THEN /\ lastResp' = [lastResp EXCEPT ![u] = Resp("get-board", 401)]
          /\ UNCHANGED http
     ELSE /\ lastResp' = [lastResp EXCEPT ![u] = Resp("get-board", 200)]
          /\ UNCHANGED http
  /\ UNCHANGED <<boardVars, storeVars, liveVars, restVars, bufVars, tx, uuid>>

\* GET /api/boards/:id: the editor grant is saved and the board answered
GetBoardSave(h) ==
  /\ http[h].pc = "save" /\ http[h].route = "get-board"
  /\ SavePush(h, Member(http[h].user, "editor"))
  /\ http' = [http EXCEPT ![h] = IdleHttp]
  /\ UNCHANGED <<boardExists, docTl, docOps, publicViewerToken, chat, storeVars,
                 liveVars, restVars, nreq, bufVars, tx, uuid>>

\* POST /api/boards/:id/members up to `await b.save()`; `target` is the user
\* of the email, NoUser when no user has it
PostMembers(u, b, target, role) ==
  /\ nreq > 0 /\ FreeHttp # {}
  /\ nreq' = nreq - 1
  /\ IF b \notin boardExists
     THEN /\ lastResp' = [lastResp EXCEPT ![u] = Resp("post-members", 404)]
          /\ UNCHANGED http
     ELSE IF RoleOf(members[b], u) # "owner"
     THEN /\ lastResp' = [lastResp EXCEPT ![u] = Resp("post-members", 403)]
          /\ UNCHANGED http
     ELSE IF target = NoUser
     THEN /\ lastResp' = [lastResp EXCEPT ![u] = Resp("post-members", 404)]
          /\ UNCHANGED http
     ELSE /\ http' = [http EXCEPT ![NewHttp] =
                         ReadBoard("post-members", u, b, target, role)]
          /\ UNCHANGED lastResp
  /\ UNCHANGED <<boardVars, storeVars, liveVars, restVars, bufVars, tx, uuid>>

\* if (already) { already.role = role } else { b.members.push(...) }; save
PostMembersSave(h) ==
  /\ http[h].pc = "save" /\ http[h].route = "post-members"
  /\ LET k == FindMember(http[h].rMembers, http[h].target) IN
       IF k # 0 THEN SaveRole(h, k, http[h].role)
       ELSE SavePush(h, Member(http[h].target, http[h].role))
  /\ http' = [http EXCEPT ![h] = IdleHttp]
  /\ UNCHANGED <<boardExists, docTl, docOps, publicViewerToken, chat, storeVars,
                 liveVars, restVars, nreq, bufVars, tx, uuid>>

\* PATCH /api/boards/:id/members up to `await b.save()`
PatchMembers(u, b, target, role) ==
  /\ nreq > 0 /\ FreeHttp # {}
  /\ nreq' = nreq - 1
  /\ IF b \notin boardExists
     THEN /\ lastResp' = [lastResp EXCEPT ![u] = Resp("patch-members", 404)]
          /\ UNCHANGED http
     ELSE IF RoleOf(members[b], u) # "owner"
     THEN /\ lastResp' = [lastResp EXCEPT ![u] = Resp("patch-members", 403)]
          /\ UNCHANGED http
     ELSE IF FindMember(members[b], target) = 0
     THEN /\ lastResp' = [lastResp EXCEPT ![u] = Resp("patch-members", 404)]
          /\ UNCHANGED http
     ELSE IF /\ RoleOf(members[b], target) = "owner" /\ role # "owner"
             /\ LastOwner(members[b])
     THEN /\ lastResp' = [lastResp EXCEPT ![u] = Resp("patch-members", 400)]
          /\ UNCHANGED http
     ELSE /\ http' = [http EXCEPT ![NewHttp] =
                         ReadBoard("patch-members", u, b, target, role)]
          /\ UNCHANGED lastResp
  /\ UNCHANGED <<boardVars, storeVars, liveVars, restVars, bufVars, tx, uuid>>

\* m.role = role; await b.save()
PatchMembersSave(h) ==
  /\ http[h].pc = "save" /\ http[h].route = "patch-members"
  /\ SaveRole(h, FindMember(http[h].rMembers, http[h].target), http[h].role)
  /\ http' = [http EXCEPT ![h] = IdleHttp]
  /\ UNCHANGED <<boardExists, docTl, docOps, publicViewerToken, chat, storeVars,
                 liveVars, restVars, nreq, bufVars, tx, uuid>>

\* DELETE /api/boards/:id/members/:userId up to `await b.save()`
DeleteMember(u, b, target) ==
  /\ nreq > 0 /\ FreeHttp # {}
  /\ nreq' = nreq - 1
  /\ IF b \notin boardExists
     THEN /\ lastResp' = [lastResp EXCEPT ![u] = Resp("delete-member", 404)]
          /\ UNCHANGED http
     ELSE IF RoleOf(members[b], u) # "owner"
     THEN /\ lastResp' = [lastResp EXCEPT ![u] = Resp("delete-member", 403)]
          /\ UNCHANGED http
     ELSE IF FindMember(members[b], target) = 0
     THEN /\ lastResp' = [lastResp EXCEPT ![u] = Resp("delete-member", 404)]
          /\ UNCHANGED http
     ELSE IF RoleOf(members[b], target) = "owner" /\ LastOwner(members[b])
     THEN /\ lastResp' = [lastResp EXCEPT ![u] = Resp("delete-member", 400)]
          /\ UNCHANGED http
     ELSE /\ http' = [http EXCEPT ![NewHttp] =
                         ReadBoard("delete-member", u, b, target, Null)]
          /\ UNCHANGED lastResp
  /\ UNCHANGED <<boardVars, storeVars, liveVars, restVars, bufVars, tx, uuid>>

\* the sequence without its element k
Splice(ms, k) == SubSeq(ms, 1, k - 1) \o SubSeq(ms, k + 1, Len(ms))

\* b.members.splice(idx, 1); await b.save(): a $set of the whole array as the
\* handler holds it, applied only if __v is still the one that was read
DeleteMemberSave(h) ==
  /\ http[h].pc = "save" /\ http[h].route = "delete-member"
  /\ LET b == http[h].boardId
         k == FindMember(http[h].rMembers, http[h].target)
     IN IF boardV[b] # http[h].rV
        THEN /\ lastResp' = [lastResp EXCEPT ![http[h].user] = Rejected("delete-member")]
             /\ UNCHANGED <<members, boardV>>
        ELSE /\ members' = [members EXCEPT ![b] = Splice(http[h].rMembers, k)]
             /\ boardV' = [boardV EXCEPT ![b] = @ + 1]
             /\ lastResp' = [lastResp EXCEPT ![http[h].user] = Resp("delete-member", 200)]
  /\ http' = [http EXCEPT ![h] = IdleHttp]
  /\ UNCHANGED <<boardExists, docTl, docOps, publicViewerToken, chat, storeVars,
                 liveVars, restVars, nreq, bufVars, tx, uuid>>

(* --------------------------- tools/restore.js ------------------------- *)
MaxLeft(a, b) == a

Max(a, b) == IF a >= b THEN a ELSE b

\* export files of b1 (taken after [x1, x2] were logged; taken from a copy of
\* the board whose history differs) and of a board the database does not hold
Artifacts ==
  { Artifact("b1", "raw", <<AOp(1, 1, "u1"), AOp(2, 2, "u1")>>,
             <<Member("u1", "owner"), Member("u2", "editor"), Member("u3", "viewer")>>),
    Artifact("b1", Null, <<AOp(3, 1, "u2"), AOp(1, 2, "u2")>>,
             <<Member("u2", "owner"), Member("u1", "editor")>>),
    Artifact("b2", "clean", <<AOp(1, 1, "u2")>>, <<Member("u2", "owner")>>) }

\* the export of a board with SnapshotEvery + ExtraOps logged operations and
\* one checkpoint
LargeExport ==
  Artifact("b1", "clean",
           [i \in 1 .. SnapshotEvery + ExtraOps |-> AOp(HistId(i), i, "u1")],
           <<Member("u1", "owner")>>)

\* no document in any collection
EmptyDatabase ==
  boardExists = {} /\ boardOps = <<>> /\ counters = NoCounters /\ snapshots = <<>>

\* the run in progress has reached `[restore] done.`
Finished == [done EXCEPT ![Len(done)].over = TRUE]

\* main() up to `await Board.findById(boardId)`
RestoreFind(a) ==
  /\ nrest > 0 /\ rs.pc = "idle"
  /\ nrest' = nrest - 1
  /\ done' = Append(done, [art |-> a, empty |-> EmptyDatabase, over |-> FALSE])
  /\ rs' = [IdleRestore EXCEPT !.pc = "board", !.art = a,
                               !.found = a.boardId \in boardExists,
                               !.rMembers = members[a.boardId],
                               !.rV = boardV[a.boardId],
                               !.rTl = docTl[a.boardId],
                               !.rOps = docOps[a.boardId],
                               !.rChat = chat[a.boardId]]
  /\ UNCHANGED <<boardVars, storeVars, liveVars, httpVars, bufVars, tx, uuid>>

RECURSIVE MergeMembersKeep(_, _)
MergeMembersKeep(acc, rest) ==
  IF rest = <<>> THEN acc
  ELSE LET m == Head(rest)
       IN MergeMembersKeep(IF FindMember(acc, m.userId) = 0 THEN Append(acc, m)
                           ELSE acc,
                           Tail(rest))

\* mergedMembers: a Map keyed by userId, filled from the board's members and
\* then from the artifact's; a later entry replaces the value of its key and
\* keeps the key's place
RECURSIVE MergeMembers(_, _)
MergeMembers(acc, rest) ==
  IF rest = <<>> THEN acc
  ELSE LET m == Head(rest)
           k == FindMember(acc, m.userId)
       IN MergeMembers(IF k = 0 THEN Append(acc, m) ELSE [acc EXCEPT ![k] = m],
                       Tail(rest))

\* the existing board after the merge block of main()
MergedTl == IF rs.art.snapshot # Null
               /\ hashObj(rs.art.snapshot)
                    # (IF rs.rTl # Null THEN hashObj(rs.rTl) ELSE "")
            THEN rs.art.snapshot ELSE rs.rTl
MergedMembers == MergeMembers(<<>>, rs.rMembers \o rs.art.members)

\* mergedChat: the board's chat and then the artifact's, an entry dropped
\* when its key `${ts}-${userId}-${text}` was seen before
FirstSeen(s) ==
  LET at == [i \in DOMAIN s |-> <<i, s[i]>>]
      kept == SelectSeq(at, LAMBDA p : \A j \in 1 .. p[1] - 1 : s[j] # p[2])
  IN [k \in DOMAIN kept |-> kept[k][2]]
MergeChat(old, inc) ==
  LET seen == Range(old)
  IN (IF Cardinality(seen) = Len(old) THEN old ELSE FirstSeen(old))
       \o FirstSeen(SelectSeq(inc, LAMBDA c : c \notin seen))
MergedChat == MergeChat(rs.rChat, rs.art.chat)
ChatModified == MergedChat # rs.rChat

\* `board.members = Array.from(...)` marks the array modified unless it holds
\* the documents that were read: an entry of the artifact makes it differ
MembersModified == rs.art.members # <<>>

\* Board.create for a board that was not found, board.save() for one that was
RestoreBoard ==
  /\ rs.pc = "board"
  /\ LET b == rs.art.boardId IN
       IF ~rs.found
       THEN \* Board.create({_id: boardId, ...})
            IF b \in boardExists
            THEN /\ rs' = [rs EXCEPT !.pc = "crashed"]
                 /\ UNCHANGED boardVars
            ELSE /\ boardExists' = boardExists \cup {b}
                 /\ members' = [members EXCEPT ![b] = rs.art.members]
                 /\ docTl' = [docTl EXCEPT ![b] = rs.art.snapshot]
                 /\ docOps' = [docOps EXCEPT ![b] = <<>>]
                 /\ boardV' = [boardV EXCEPT ![b] = 0]
                 /\ chat' = [chat EXCEPT ![b] = rs.art.chat]
                 /\ rs' = [rs EXCEPT !.pc = "count"]
                 /\ UNCHANGED publicViewerToken
       ELSE \* board.save(): $set of the paths that changed; a changed array
            \* is written only if __v is still the one that was read
            IF (MembersModified \/ ChatModified) /\ boardV[b] # rs.rV
            THEN /\ rs' = [rs EXCEPT !.pc = "crashed"]
                 /\ UNCHANGED boardVars
            ELSE /\ members' = [members EXCEPT ![b] =
                       IF MembersModified THEN MergedMembers ELSE @]
                 /\ chat' = [chat EXCEPT ![b] =
                       IF ChatModified THEN MergedChat ELSE @]
                 /\ boardV' = [boardV EXCEPT ![b] =
                       IF MembersModified \/ ChatModified THEN @ + 1 ELSE @]
                 /\ docTl' = [docTl EXCEPT ![b] =
                       IF MergedTl # rs.rTl THEN MergedTl ELSE @]
                 /\ docOps' = [docOps EXCEPT ![b] =
                       IF MergedTl # rs.rTl THEN rs.rOps ELSE @]
                 /\ rs' = [rs EXCEPT !.pc = "count"]
                 /\ UNCHANGED <<boardExists, publicViewerToken>>
  /\ UNCHANGED <<storeVars, liveVars, httpVars, nrest, done, bufVars, tx, uuid>>

\* latestVersion = await BoardSnapshot.countDocuments({ boardId })
RestoreCount ==
  /\ rs.pc = "count"
  /\ rs' = [rs EXCEPT !.pc = IF rs.art.snapshot # Null THEN "snap" ELSE "ops",
                      !.latestVersion = Len(SnapsOf(snapshots, rs.art.boardId)),
                      !.i = 1, !.maxSeq = 0]
  /\ UNCHANGED <<boardVars, storeVars, liveVars, httpVars, nrest, done, bufVars, tx, uuid>>

\* await BoardSnapshot.create({ boardId, version: latestVersion + 1, ... })
RestoreSnapshot ==
  /\ rs.pc = "snap"
  /\ snapshots' = Append(snapshots,
        [boardId |-> rs.art.boardId, version |-> rs.latestVersion + 1,
         tldraw |-> rs.art.snapshot, checksum |-> hashObj(rs.art.snapshot)])
  /\ rs' = [rs EXCEPT !.pc = "ops"]
  /\ UNCHANGED <<boardVars, boardOps, counters, liveVars, httpVars, nrest, done,
                 bufVars, tx, uuid>>

StoredNone(b, o) == <<>>

\* the records of board b with opId o, in insertion order
Stored(b, o) == SelectSeq(boardOps, LAMBDA r : r.boardId = b /\ r.opId = o)

\* exists = await BoardOp.findOne({ boardId, opId: item.opId })
RestoreOpFind ==
  /\ rs.pc = "ops" /\ rs.i <= Len(rs.art.ops)
  /\ LET hit == Stored(rs.art.boardId, rs.art.ops[rs.i].opId) IN
       rs' = IF hit # <<>>
             THEN [rs EXCEPT !.maxSeq = Max(@, hit[1].seq), !.i = @ + 1]
             ELSE [rs EXCEPT !.pc = "create"]
  /\ UNCHANGED <<boardVars, storeVars, liveVars, httpVars, nrest, done, bufVars, tx, uuid>>

\* an open transaction holds an uncommitted record {b, o}: an insert of the
\* same key outside the transaction waits for it to end
InsertPending(b, o) ==
  \E t \in TxIds : /\ tx[t].pc = "commit" /\ tx[t].boardId = b
                   /\ \E w \in Range(tx[t].writes) : w.opId = o

NoDuplicateKey(b, o) == FALSE

\* the unique index {boardId: 1, opId: 1} answers E11000 to a second record
DuplicateKey(b, o) == Stored(b, o) # <<>>

RestoreOpReplace ==
  /\ rs.pc = "create"
  /\ LET b == rs.art.boardId
         item == rs.art.ops[rs.i]
     IN /\ ~InsertPending(b, item.opId)
        /\ IF DuplicateKey(b, item.opId)
           THEN /\ rs' = [rs EXCEPT !.pc = "ops", !.i = @ + 1]
                /\ UNCHANGED boardOps
           ELSE /\ boardOps' = Append(
                      SelectSeq(boardOps,
                                LAMBDA r : r.boardId # b \/ r.seq # item.seq),
                      [boardId |-> b, seq |-> item.seq, opId |-> item.opId,
                       authorId |-> item.authorId])
                /\ rs' = [rs EXCEPT !.pc = "ops", !.i = @ + 1,
                                    !.maxSeq = Max(@, item.seq)]
  /\ UNCHANGED <<boardVars, counters, snapshots, liveVars, httpVars, nrest, done,
                 bufVars, tx, uuid>>

\* created = await BoardOp.create({ boardId, seq: item.seq, opId, ... }); the
\* catch block ignores E11000
RestoreOpCreate ==
  /\ rs.pc = "create"
  /\ LET b == rs.art.boardId
         item == rs.art.ops[rs.i]
     IN /\ ~InsertPending(b, item.opId)
        /\ IF DuplicateKey(b, item.opId)
           THEN /\ rs' = [rs EXCEPT !.pc = "ops", !.i = @ + 1]
                /\ UNCHANGED boardOps
           ELSE /\ boardOps' = Append(boardOps,
                      [boardId |-> b, seq |-> item.seq, opId |-> item.opId,
                       authorId |-> item.authorId])
                /\ rs' = [rs EXCEPT !.pc = "ops", !.i = @ + 1,
                                    !.maxSeq = Max(@, item.seq)]
  /\ UNCHANGED <<boardVars, counters, snapshots, liveVars, httpVars, nrest, done,
                 bufVars, tx, uuid>>

\* doc = await Counter.findOne({ _id: key }); nothing more to do if doc.seq
\* is not below maxSeq
RestoreCounterFind ==
  /\ rs.pc = "ops" /\ rs.i > Len(rs.art.ops)
  /\ LET b == rs.art.boardId IN
       IF b \in DOMAIN counters /\ counters[b] >= rs.maxSeq
       THEN rs' = IdleRestore /\ done' = Finished
       ELSE /\ rs' = [rs EXCEPT !.pc = "counter", !.docFound = b \in DOMAIN counters,
                                !.docSeq = CounterVal(counters, b)]
            /\ UNCHANGED done
  /\ UNCHANGED <<boardVars, storeVars, liveVars, httpVars, nrest, bufVars, tx, uuid>>

\* Counter.create({ _id: key, seq: maxSeq }) or doc.seq = maxSeq; doc.save()
RestoreCounterWrite ==
  /\ rs.pc = "counter"
  /\ LET b == rs.art.boardId IN
       /\ ~CounterLocked(b, 0)
       /\ IF ~rs.docFound /\ b \in DOMAIN counters
          THEN /\ rs' = [rs EXCEPT !.pc = "crashed"]
               /\ UNCHANGED <<counters, done>>
          ELSE /\ counters' = [k \in DOMAIN counters \cup {b} |->
                                 IF k = b THEN rs.maxSeq ELSE counters[k]]
               /\ rs' = IdleRestore
               /\ done' = Finished
  /\ UNCHANGED <<boardVars, boardOps, snapshots, liveVars, httpVars, nrest,
                 bufVars, tx, uuid>>

\* main().catch(e => process.exit(1)): the run is over
RestoreExit ==
  /\ rs.pc = "crashed"
  /\ rs' = IdleRestore
  /\ UNCHANGED <<boardVars, storeVars, liveVars, httpVars, nrest, done, bufVars, tx, uuid>>

(* ---------------------------- specification --------------------------- *)
\* socket.on('board:ops') receives payload p from socket s
BoardOpsEvent(s, p) == OpsReject(s, p) \/ OpsReceive(s, p)

NextOps ==
  \/ \E s \in Sockets, p \in Payloads : BoardOpsEvent(s, p)
  \/ \E t \in TxIds : TxBegin(t)
  \/ \E t \in TxIds : TxRun(t)
  \/ \E t \in TxIds : TxCommit(t)
  \/ \E t \in TxIds : TxAbort(t)

NextSnapshots ==
  \/ \E u \in Users, b \in BoardIds : SnapshotRead(u, b)
  \/ \E h \in HttpIds : SnapshotCount(h)
  \/ \E h \in HttpIds : SnapshotCreate(h)
  \/ \E h \in HttpIds : SnapshotSave(h)
  \/ \E h \in HttpIds : SnapshotFail(h)

NextRestore ==
  \/ \E a \in Artifacts : RestoreFind(a)
  \/ RestoreBoard
  \/ RestoreCount
  \/ RestoreSnapshot
  \/ RestoreOpFind
  \/ RestoreOpCreate
  \/ RestoreCounterFind
  \/ RestoreCounterWrite
  \/ RestoreExit

NextMembers ==
  \/ \E u \in Users \cup {NoUser}, b \in BoardIds, k \in Tokens : GetBoard(u, b, k)
  \/ \E h \in HttpIds : GetBoardSave(h)
  \/ \E u \in Users, b \in BoardIds, t \in Users \cup {NoUser}, r \in Roles :
        PostMembers(u, b, t, r)
  \/ \E h \in HttpIds : PostMembersSave(h)
  \/ \E u \in Users, b \in BoardIds, t \in Users, r \in Roles :
        PatchMembers(u, b, t, r)
  \/ \E h \in HttpIds : PatchMembersSave(h)
  \/ \E u \in Users, b \in BoardIds, t \in Users : DeleteMember(u, b, t)
  \/ \E h \in HttpIds : DeleteMemberSave(h)

\* the sync coordinator on a board without history
Next == NextOps
Spec == Init /\ [][Next]_vars

\* the sync coordinator on a board whose log is one or two operations short
\* of the checkpoint boundary
InitCadence ==
  /\ InitBoards /\ InitJoined /\ InitIdle /\ Quota(MaxSubmits, 0, 0, 0)
  /\ \E h \in {SnapshotEvery - 2, SnapshotEvery - 1} : InitStore(h)
SpecCadence == InitCadence /\ [][Next]_vars

\* the sync coordinator and runs of the restore tool on the same database
InitRestore ==
  /\ InitBoards /\ InitStore(0) /\ InitIdle
  /\ Quota(RestoreSubmits, 0, 0, MaxRestores)
  /\ sock = [s \in Sockets |->
       CASE s = "s1" -> [userId |-> "u1", boardId |-> "b1", role |-> "owner"]
         [] s = "s2" -> [userId |-> "u2", boardId |-> "b1", role |-> "editor"]
         [] OTHER -> [userId |-> NoUser, boardId |-> NoBoard, role |-> "viewer"]]
  /\ room = [s \in Sockets |-> IF sock[s].boardId = NoBoard THEN {}
                               ELSE {sock[s].boardId}]
NextWithRestore == NextOps \/ NextRestore
SpecRestore == InitRestore /\ [][NextWithRestore]_vars

\* the same with one operation of b1 logged before the behaviour starts, so
\* that the counter document of b1 exists when the restore tool looks for it
InitRestoreLogged ==
  /\ InitBoards /\ InitStore(1) /\ InitIdle
  /\ Quota(RestoreSubmits, 0, 0, MaxRestores)
  /\ sock = [s \in Sockets |->
       CASE s = "s1" -> [userId |-> "u1", boardId |-> "b1", role |-> "owner"]
         [] s = "s2" -> [userId |-> "u2", boardId |-> "b1", role |-> "editor"]
         [] OTHER -> [userId |-> NoUser, boardId |-> NoBoard, role |-> "viewer"]]
  /\ room = [s \in Sockets |-> IF sock[s].boardId = NoBoard THEN {}
                               ELSE {sock[s].boardId}]
NextRestoreLogged ==
  \/ NextOps
  \/ \E a \in Artifacts : RestoreFind(a)
  \/ RestoreBoard
  \/ RestoreCount
  \/ RestoreSnapshot
  \/ RestoreOpFind
  \/ RestoreOpCreate
  \/ RestoreCounterFind
  \/ RestoreCounterWrite
SpecRestoreLogged == InitRestoreLogged /\ [][NextRestoreLogged]_vars

\* the sync coordinator with the timers and flushes of the persistence buffer
NextFlush ==
  \/ \E b \in BoardIds : TimerFire(b)
  \/ \E f \in FlushIds : FlushRead(f)
  \/ \E f \in FlushIds : FlushWrite(f)
  \/ \E f \in FlushIds : FlushFail(f)
InitBuffer ==
  /\ InitBoards /\ InitStore(0) /\ InitIdle
  /\ Quota(BufferSubmits, 0, 0, 0)
  /\ sock = [s \in Sockets |->
       CASE s = "s1" -> [userId |-> "u1", boardId |-> "b1", role |-> "owner"]
         [] s = "s2" -> [userId |-> "u2", boardId |-> "b1", role |-> "editor"]
         [] OTHER -> [userId |-> "u3", boardId |-> NoBoard, role |-> "viewer"]]
  /\ room = [s \in Sockets |-> IF sock[s].boardId = NoBoard THEN {}
                               ELSE {sock[s].boardId}]
NextBuffer ==
  \/ \E s \in Sockets, p \in BufferPayloads : BoardOpsEvent(s, p)
  \/ \E t \in TxIds : TxBegin(t)
  \/ \E t \in TxIds : TxRun(t)
  \/ \E t \in TxIds : TxCommit(t)
  \/ \E t \in TxIds : TxAbort(t)
  \/ NextFlush
SpecBuffer == InitBuffer /\ [][NextBuffer]_vars

\* the same where the event loop keeps running what is due: a timer that
\* expired fires, an await of a timer callback settles by resolving or by
\* rejecting
SpecBufferFair == InitBuffer /\ [][NextBuffer]_vars /\ WF_vars(NextFlush)

\* flushes that all succeed, of batches of operations without drawing, while
\* the owner asks for "snapshot now"
FlushablePayloads ==
  {p \in BufferPayloads :
     p.snapshot = Null /\ \A i \in DOMAIN p.ops : p.ops[i].kind = "op"}
InitOverlap ==
  /\ InitBoards /\ InitStore(0) /\ InitIdle
  /\ Quota(BufferSubmits, 0, 1, 0)
  /\ sock = [s \in Sockets |->
       CASE s = "s1" -> [userId |-> "u1", boardId |-> "b1", role |-> "owner"]
         [] s = "s2" -> [userId |-> "u2", boardId |-> "b1", role |-> "editor"]
         [] OTHER -> [userId |-> "u3", boardId |-> NoBoard, role |-> "viewer"]]
  /\ room = [s \in Sockets |-> IF sock[s].boardId = NoBoard THEN {}
                               ELSE {sock[s].boardId}]
NextOverlap ==
  \/ \E s \in Sockets, p \in FlushablePayloads : OpsReceive(s, p)
  \/ \E t \in TxIds : TxBegin(t)
  \/ \E t \in TxIds : TxRun(t)
  \/ \E t \in TxIds : TxCommit(t)
  \/ \E b \in BoardIds : TimerFire(b)
  \/ \E f \in FlushIds : FlushRead(f)
  \/ \E f \in FlushIds : FlushWrite(f)
  \/ SnapshotRead("u1", "b1")
  \/ \E h \in HttpIds : SnapshotCount(h)
  \/ \E h \in HttpIds : SnapshotCreate(h)
  \/ \E h \in HttpIds : SnapshotSave(h)
SpecOverlap == InitOverlap /\ [][NextOverlap]_vars

NextExport ==
  \/ \E u \in Users, b \in BoardIds : ExportRead(u, b)
  \/ \E h \in HttpIds : ExportSnap(h)
  \/ \E h \in HttpIds : ExportOps(h)
  \/ \E h \in HttpIds : ExportFail(h)

\* stored states of b1 (members u1 and u2): without history; with a cached
\* drawing and three logged operations; with SnapshotEvery + ExtraOps logged
\* operations and the checkpoint of the SnapshotEvery-th; with a snapshot
\* record taken before the board had a drawing; with two "snapshot now"
\* records of one version
StoredStates ==
  {[tl |-> Null, h |-> 0, snaps |-> <<>>],
   [tl |-> "clean", h |-> 3, snaps |-> <<>>],
   [tl |-> "clean", h |-> SnapshotEvery + ExtraOps,
    snaps |-> <<[boardId |-> "b1", version |-> 1, tldraw |-> "clean",
                 checksum |-> hashObj("clean")]>>],
   [tl |-> "clean", h |-> 0,
    snaps |-> <<[boardId |-> "b1", version |-> 1, tldraw |-> Null,
                 checksum |-> hashObj(Null)]>>],
   [tl |-> "clean", h |-> 0,
    snaps |-> <<[boardId |-> "b1", version |-> 1, tldraw |-> Null,
                 checksum |-> hashObj(Null)],
                [boardId |-> "b1", version |-> 1, tldraw |-> "clean",
                 checksum |-> hashObj("clean")]>>]}

\* exports only, no writer
InitExportAlone ==
  /\ \E st \in StoredStates, c \in {<<>>, <<ChatMsg(1, "u1", "hi")>>} :
       /\ boardExists = {"b1"}
       /\ members = [b \in BoardIds |-> IF b = "b1"
              THEN <<Member("u1", "owner"), Member("u2", "editor")>> ELSE <<>>]
       /\ boardV = [b \in BoardIds |-> 0]
       /\ docTl = [b \in BoardIds |-> IF b = "b1" THEN st.tl ELSE Null]
       /\ docOps = [b \in BoardIds |-> <<>>]
       /\ publicViewerToken = [b \in BoardIds |-> ""]
       /\ chat = [b \in BoardIds |-> IF b = "b1" THEN c ELSE <<>>]
       /\ boardOps = [i \in 1 .. st.h |->
             [boardId |-> "b1", seq |-> i, opId |-> HistId(i), authorId |-> "u1"]]
       /\ counters = IF st.h = 0 THEN NoCounters ELSE [k \in {"b1"} |-> st.h]
       /\ snapshots = st.snaps
  /\ InitIdle
  /\ Quota(0, 0, ExportReqs, 0)
  /\ sock = Connected("u3")
  /\ room = [s \in Sockets |-> {}]
SpecExportAlone == InitExportAlone /\ [][NextExport]_vars

\* exports of b1 while its owner draws (one batch that carries a drawing) and
\* members ask for "snapshot now"; b1 starts without history or with
\* SnapshotEvery + ExtraOps logged operations and the checkpoint of the
\* SnapshotEvery-th, none of them sent with a drawing
DrawingPayload ==
  [ops |-> <<Op(1, 1, 1)>>, snapshot |-> "raw", typ |-> "array"]
InitExport ==
  /\ InitBoards /\ InitIdle
  /\ \/ InitStore(0)
     \/ /\ boardOps = [i \in 1 .. SnapshotEvery + ExtraOps |->
              [boardId |-> "b1", seq |-> i, opId |-> HistId(i), authorId |-> "u1"]]
        /\ counters = [k \in {"b1"} |-> SnapshotEvery + ExtraOps]
        /\ snapshots = <<[boardId |-> "b1", version |-> 1, tldraw |-> Null,
                          checksum |-> hashObj(Null)]>>
  /\ Quota(1, 0, LiveReqs, 0)
  /\ sock = [s \in Sockets |->
       CASE s = "s1" -> [userId |-> "u1", boardId |-> "b1", role |-> "owner"]
         [] OTHER -> [userId |-> "u3", boardId |-> NoBoard, role |-> "viewer"]]
  /\ room = [s \in Sockets |-> IF sock[s].boardId = NoBoard THEN {}
                               ELSE {sock[s].boardId}]
NextExportLive ==
  \/ NextExport
  \/ NextSnapshots
  \/ NextFlush
  \/ \E s \in Sockets : BoardOpsEvent(s, DrawingPayload)
  \/ \E t \in TxIds : TxBegin(t)
  \/ \E t \in TxIds : TxRun(t)
  \/ \E t \in TxIds : TxCommit(t)
  \/ \E t \in TxIds : TxAbort(t)
SpecExport == InitExport /\ [][NextExportLive]_vars

\* sockets joining boards while an owner changes roles; b1 with or without
\* a public-viewer token, b2 not in the database
InitJoin ==
  /\ \E ms \in { <<Member("u1", "owner"), Member("u2", "editor"), Member("u3", "viewer")>>,
                  <<Member("u1", "owner"), Member("u2", "owner")>> },
        k \in {"", "t1"} :
       /\ boardExists = {"b1"}
       /\ members = [b \in BoardIds |-> IF b = "b1" THEN ms ELSE <<>>]
       /\ boardV = [b \in BoardIds |-> 0]
       /\ docTl = [b \in BoardIds |-> Null]
       /\ docOps = [b \in BoardIds |-> <<>>]
       /\ publicViewerToken = [b \in BoardIds |-> IF b = "b1" THEN k ELSE ""]
       /\ chat = [b \in BoardIds |-> <<>>]
  /\ InitStore(0) /\ InitIdle
  /\ Quota(0, MaxJoins, 1, 0)
  /\ \E u3 \in {"u3", NoUser} : sock = Connected(u3)
  /\ room = [s \in Sockets |-> {}]
NextJoin ==
  \/ \E s \in Sockets, b \in BoardIds, k \in Tokens : RoomJoin(s, b, k)
  \/ \E s \in Sockets, i \in 1 .. MaxPending : JoinFinish(s, i)
  \/ \E s \in Sockets, i \in 1 .. MaxPending : JoinFail(s, i)
  \/ \E u \in Users, b \in BoardIds, t \in Users, r \in Roles :
        PatchMembers(u, b, t, r)
  \/ \E h \in HttpIds : PatchMembersSave(h)
SpecJoin == InitJoin /\ [][NextJoin]_vars

\* sockets moving between two boards: b1 with a public-viewer token, b2
\* without; s3 has no user
InitRooms ==
  /\ boardExists = BoardIds
  /\ members = [b \in BoardIds |-> IF b = "b1"
         THEN <<Member("u1", "owner"), Member("u2", "editor")>>
         ELSE <<Member("u2", "owner")>>]
  /\ boardV = [b \in BoardIds |-> 0]
  /\ docTl = [b \in BoardIds |-> Null]
  /\ docOps = [b \in BoardIds |-> <<>>]
  /\ publicViewerToken = [b \in BoardIds |-> IF b = "b1" THEN "t1" ELSE ""]
  /\ chat = [b \in BoardIds |-> <<>>]
  /\ InitStore(0) /\ InitIdle
  /\ Quota(0, RoomJoins, 0, 0)
  /\ sock = Connected(NoUser)
  /\ room = [s \in Sockets |-> {}]
NextRooms ==
  \/ \E s \in Sockets, b \in BoardIds, k \in {"", "t1"} : RoomJoin(s, b, k)
  \/ \E s \in Sockets, i \in 1 .. MaxPending : JoinFinish(s, i)
  \/ \E s \in Sockets, i \in 1 .. MaxPending : JoinFail(s, i)
SpecRooms == InitRooms /\ [][NextRooms]_vars

\* the same with sockets announcing their presence
NextPresence ==
  \/ \E s \in Sockets, b \in BoardIds : RoomJoin(s, b, "t1")
  \/ \E s \in Sockets, i \in 1 .. MaxPending : JoinFinish(s, i)
  \/ \E s \in Sockets, ib \in BoardIds \cup {NoBoard} : PresenceJoin(s, ib)
SpecPresence == InitRooms /\ [][NextPresence]_vars

\* sockets asking for the board's document and joining, while the restore
\* tool merges an export file into the database
NextSnapshotRequest ==
  \/ \E s \in Sockets : SnapshotRequest(s)
  \/ \E s \in Sockets, i \in 1 .. MaxPending : SnapshotRespond(s, i)
  \/ \E s \in Sockets, i \in 1 .. MaxPending : SnapshotRequestFail(s, i)
  \/ \E s \in Sockets, b \in BoardIds : RoomJoin(s, b, "t1")
  \/ \E s \in Sockets, i \in 1 .. MaxPending : JoinFinish(s, i)
  \/ \E a \in Artifacts : RestoreFind(a)
  \/ RestoreBoard
  \/ RestoreCount
  \/ RestoreSnapshot
  \/ RestoreOpFind
  \/ RestoreOpCreate
  \/ RestoreCounterFind
  \/ RestoreCounterWrite

InitSnapshotRequest ==
  /\ InitBoards /\ InitStore(0) /\ InitIdle
  /\ Quota(0, SnapshotEvents, 0, MaxRestores)
  /\ sock = [s \in Sockets |->
       CASE s = "s1" -> [userId |-> "u1", boardId |-> "b1", role |-> "owner"]
         [] s = "s2" -> [userId |-> "u2", boardId |-> "b1", role |-> "editor"]
         [] OTHER -> [userId |-> NoUser, boardId |-> NoBoard, role |-> "viewer"]]
  /\ room = [s \in Sockets |-> IF sock[s].boardId = NoBoard THEN {}
                               ELSE {sock[s].boardId}]
SpecSnapshotRequest == InitSnapshotRequest /\ [][NextSnapshotRequest]_vars

\* runs of the restore tool one after the other, no other writer: on an
\* empty database, on b1 without history, on b1 with three logged operations
InitEmptyBoards ==
  /\ boardExists = {}
  /\ members = [b \in BoardIds |-> <<>>]
  /\ boardV = [b \in BoardIds |-> 0]
  /\ docTl = [b \in BoardIds |-> Null]
  /\ docOps = [b \in BoardIds |-> <<>>]
  /\ publicViewerToken = [b \in BoardIds |-> ""]
  /\ chat = [b \in BoardIds |-> <<>>]
InitRestoreAlone ==
  /\ \/ InitEmptyBoards /\ InitStore(0)
     \/ InitBoards /\ \E h \in {0, 3} : InitStore(h)
  /\ InitIdle
  /\ Quota(0, 0, 0, MaxRuns)
  /\ sock = Connected("u3")
  /\ room = [s \in Sockets |-> {}]
NextRestoreAlone ==
  \/ \E a \in Artifacts \cup {LargeExport} : RestoreFind(a)
  \/ RestoreBoard
  \/ RestoreCount
  \/ RestoreSnapshot
  \/ RestoreOpFind
  \/ RestoreOpCreate
  \/ RestoreCounterFind
  \/ RestoreCounterWrite
SpecRestoreAlone == InitRestoreAlone /\ [][NextRestoreAlone]_vars

\* the member routes and a run of the restore tool; b1 has one owner and two
\* other members, or two owners
InitMembers ==
  /\ \E ms \in { <<Member("u1", "owner"), Member("u2", "editor"), Member("u3", "viewer")>>,
                  <<Member("u1", "owner"), Member("u2", "owner")>> } : InitBoardsWith(ms)
  /\ InitStore(0) /\ InitIdle
  /\ Quota(0, 0, MaxMemberReqs, MaxRestores)
  /\ sock = Connected("u3")
  /\ room = [s \in Sockets |-> {}]
NextWithMembers == NextMembers \/ NextRestore
SpecMembers == InitMembers /\ [][NextWithMembers]_vars

(* ============================== properties ============================ *)
LogOf(b) == OpsOf(boardOps, b)
LogOpIds(b) == {r.opId : r \in Range(LogOf(b))}
AckOk == Ack("board:ops", TRUE, "")
AckFailed == Ack("board:ops", FALSE, "persist failed")

\* every operation of the batch of handler t carries an opId that the log of
\* its board already holds
AllLogged(t) ==
  \A i \in DOMAIN tx[t].ops :
    /\ tx[t].ops[i].kind = "op"
    /\ tx[t].ops[i].opId # NoId
    /\ tx[t].ops[i].opId \in LogOpIds(tx[t].boardId)

\* C1: no step of a board:ops handler whose operations all carry opIds that
\* are already in the board's log inserts an operation record or changes the
\* sequence counter or any existing record.
C1_RetryIsNoOp ==
  [][\A t \in TxIds :
       (tx[t].pc # "idle" /\ tx'[t] # tx[t] /\ AllLogged(t))
         => (boardOps' = boardOps /\ counters' = counters)]_vars

\* s1 sent the batch [x1, x2] twice, both handlers are over, the second one
\* acknowledged ok: two records, counter 2
C1_Witness ==
  /\ Len(inbox["s2"]) = 2
  /\ \A i \in 1 .. 2 : /\ inbox["s2"][i].from = "s1"
                       /\ inbox["s2"][i].ops = <<Op(1, 1, 1), Op(2, 2, 1)>>
  /\ \A t \in TxIds : tx[t].pc = "idle"
  /\ lastAck["s1"] = AckOk
  /\ Len(LogOf("b1")) = 2
  /\ CounterVal(counters, "b1") = 2

\* C2: under any interleaving of board:ops batches (the same opId in two
\* concurrent batches, the same opId twice in one batch) and of runs of the
\* restore tool, no two operation records of a board have the same opId.
C2_OpIdUnique ==
  \A i, j \in 1..Len(boardOps) :
    (i # j /\ boardOps[i].boardId = boardOps[j].boardId)
      => boardOps[i].opId # boardOps[j].opId

\* the restore tool did not find an opId, and before it inserts the record a
\* batch has committed one with that opId
C2_Witness ==
  /\ rs.pc = "create"
  /\ DuplicateKey(rs.art.boardId, rs.art.ops[rs.i].opId)
  /\ Len(boardOps) >= 2

\* C3: the records of a board, in the order they were committed, have
\* strictly increasing sequence numbers (so no two are equal).
C3_SeqIncreasing ==
  \A b \in BoardIds :
    \A i \in 1 .. Len(LogOf(b)) - 1 : LogOf(b)[i].seq < LogOf(b)[i + 1].seq

\* batches of both writers were committed on b1
C3_Witness ==
  /\ Len(LogOf("b1")) >= 3
  /\ \E i, j \in DOMAIN LogOf("b1") :
       i < j /\ LogOf("b1")[i].authorId = "u2" /\ LogOf("b1")[j].authorId = "u1"

\* the batch of handler t is k >= 1 operations with pairwise distinct opIds,
\* none of them in the log of its board
FreshDistinct(t) ==
  /\ tx[t].ops # <<>>
  /\ \A i \in DOMAIN tx[t].ops :
       /\ tx[t].ops[i].kind = "op"
       /\ tx[t].ops[i].opId # NoId
       /\ tx[t].ops[i].opId \notin LogOpIds(tx[t].boardId)
       /\ \A j \in DOMAIN tx[t].ops : i # j => tx[t].ops[i].opId # tx[t].ops[j].opId

\* handler t ends in this step with the acknowledgment {ok: true}
EndsOk(t) ==
  /\ tx[t].pc # "idle" /\ tx'[t].pc = "idle"
  /\ lastAck'[tx[t].sock] = AckOk

\* C4: when the counter of the board is c and a batch of k distinct opIds that
\* are not in the log is committed, the log gains exactly k records, numbered
\* c+1 .. c+k in the order of the batch, and the counter becomes c+k.
C4_BatchNumbered ==
  [][\A t \in TxIds :
       (EndsOk(t) /\ FreshDistinct(t)) =>
         LET b == tx[t].boardId
             c == CounterVal(counters, b)
             k == Len(tx[t].ops)
         IN /\ OpsOf(boardOps', b) = LogOf(b) \o
                 [i \in 1 .. k |->
                    [boardId |-> b, seq |-> c + i, opId |-> tx[t].ops[i].opId,
                     authorId |-> tx[t].author]]
            /\ CounterVal(counters', b) = c + k]_vars

\* after a batch with a generated opId took number 1, [x1, x2] took 2 and 3
C4_Witness ==
  /\ Len(LogOf("b1")) = 3
  /\ LogOf("b1")[2].opId = 1 /\ LogOf("b1")[2].seq = 2
  /\ LogOf("b1")[3].opId = 2 /\ LogOf("b1")[3].seq = 3
  /\ CounterVal(counters, "b1") = 3

\* C5: a step of a board:ops handler changes the operation log, the counters
\* or the snapshots only if it ends the handler with {ok: true}, and then all
\* operations of the batch are logged and the counter has advanced by the
\* number of inserted records; a handler that ends otherwise answers
\* {ok: false} and has left no record and consumed no sequence number.
C5_AllOrNothing ==
  [][\A t \in TxIds :
       (tx[t].pc # "idle" /\ tx'[t] # tx[t]) =>
         IF EndsOk(t)
         THEN /\ \A i \in DOMAIN tx[t].ops :
                   tx[t].ops[i].opId # NoId =>
                     tx[t].ops[i].opId \in {r.opId : r \in Range(OpsOf(boardOps', tx[t].boardId))}
              /\ CounterVal(counters', tx[t].boardId) - CounterVal(counters, tx[t].boardId)
                   = Len(boardOps') - Len(boardOps)
         ELSE /\ storeVars' = storeVars
              /\ tx'[t].pc = "idle" => lastAck'[tx[t].sock] = AckFailed]_vars

\* s1 sent [x3, null]: its peer has the batch, the sender the error, and
\* neither a record nor a counter exists
C5_Witness ==
  /\ \E i \in DOMAIN inbox["s2"] :
       inbox["s2"][i].from = "s1" /\ inbox["s2"][i].ops = <<Op(3, 3, 1), NullItem>>
  /\ lastAck["s1"] = AckFailed
  /\ \A t \in TxIds : tx[t].pc = "idle"
  /\ boardOps = <<>> /\ counters = NoCounters

\* C6: board:ops from a socket that has joined no room or whose role is not
\* owner or editor is answered {ok: false} and has no effect: no emit, no
\* buffer entry, no handler, no record, no snapshot, no counter change.
C6_ReadOnly ==
  [][\A s \in Sockets, p \in Payloads :
       (BoardOpsEvent(s, p)
          /\ (sock[s].boardId = NoBoard \/ sock[s].role \notin {"owner", "editor"}))
         => /\ inbox' = inbox /\ buffers' = buffers /\ tx' = tx
            /\ storeVars' = storeVars /\ boardVars' = boardVars
            /\ lastAck'[s].ev = "board:ops" /\ ~lastAck'[s].ok
            /\ lastAck'[s].info = IF sock[s].boardId = NoBoard THEN "no-room"
                                  ELSE "read-only"]_vars

\* the viewer s3, joined to b1, was refused
C6_Witness ==
  /\ sock["s3"].boardId = "b1" /\ sock["s3"].role = "viewer"
  /\ lastAck["s3"] = Ack("board:ops", FALSE, "read-only")

SnapshotsOf(b) == SnapsOf(snapshots, b)

C8_VersionsGapFree ==
  \A b \in BoardIds :
    \A i \in DOMAIN SnapshotsOf(b) : SnapshotsOf(b)[i].version = i

\* the member list ms has exactly one (userId, role) pair with role owner, and
\* it is the pair the routes find for target
SoleOwner(ms, target) == Owners(ms) = {FindMember(ms, target)}

\* C9: a role change that would demote the only owner of a board, and a
\* removal of the only owner, are answered with an error, start no save and
\* leave the member list of the board as it was.
C9_SoleOwnerKept ==
  [][\A u \in Users, b \in boardExists, t \in Users :
       (nreq' # nreq /\ SoleOwner(members[b], t)
        /\ (DeleteMember(u, b, t)
            \/ \E r \in Roles \ {"owner"} : PatchMembers(u, b, t, r)))
       => /\ lastResp'[u].status >= 400
          /\ http' = http
          /\ members' = members]_vars

\* the only owner of a board was refused their own demotion or removal
C9_Witness ==
  \E u \in Users, b \in boardExists :
    /\ SoleOwner(members[b], u)
    /\ lastResp[u] \in {Resp("patch-members", 400), Resp("delete-member", 400)}

\* C10: every board has at least one member with role owner, whatever the
\* order and interleaving of the member routes, the editor grant of
\* GET /api/boards/:id and runs of the restore tool.
C10_OwnerExists ==
  \A b \in boardExists : Owners(members[b]) # {}

\* the run of the restore tool in progress repeats the artifact of the run
\* before it, which started on an empty database and reached its end
SecondRun ==
  /\ rs.pc # "idle" /\ Len(done) >= 2
  /\ done[Len(done)].art = done[Len(done) - 1].art
  /\ done[Len(done) - 1].empty /\ done[Len(done) - 1].over

\* C11: after a run of the restore tool on an empty target, no step of a
\* second run with the same artifact adds, removes or changes an operation
\* record or changes the sequence counter.
C11_SecondRunSame ==
  [][SecondRun => (boardOps' = boardOps /\ counters' = counters)]_vars

\* the large export was restored twice into an empty database
C11_Witness ==
  /\ rs.pc = "idle" /\ Len(done) = 2
  /\ done[1] = [art |-> LargeExport, empty |-> TRUE, over |-> TRUE]
  /\ done[2] = [art |-> LargeExport, empty |-> FALSE, over |-> TRUE]
  /\ Len(LogOf("b1")) = SnapshotEvery + ExtraOps

\* the greatest seq among the records of board b whose opId is in the artifact
SeqsStored(b, art) ==
  {r.seq : r \in {x \in Range(OpsOf(boardOps, b)) :
                    \E i \in DOMAIN art.ops : art.ops[i].opId = x.opId}}

\* this step ends the run of the restore tool in progress at `[restore] done.`
RunEnds == rs.pc # "idle" /\ rs'.pc = "idle" /\ done'[Len(done)].over

\* C12: with no concurrent writer, no step of a run of the restore tool lowers
\* the sequence counter of the board; when the run ends the counter exists
\* and is at least the seq of every stored operation of the artifact; a run
\* that started on an empty database leaves it equal to the greatest seq of
\* the artifact.
C12_CounterReconciled ==
  [][rs.pc # "idle" =>
       LET b == rs.art.boardId IN
         /\ CounterVal(counters', b) >= CounterVal(counters, b)
         /\ RunEnds =>
              /\ b \in DOMAIN counters'
              /\ \A q \in SeqsStored(b, rs.art) : counters'[b] >= q
              /\ done[Len(done)].empty =>
                   /\ \A i \in DOMAIN rs.art.ops : counters'[b] >= rs.art.ops[i].seq
                   /\ \E i \in DOMAIN rs.art.ops : counters'[b] = rs.art.ops[i].seq]_vars

\* the large export was restored into an empty database: counter 205, the
\* checkpoint of operation 200 restored as snapshot version 1
C12_Witness ==
  /\ rs.pc = "idle" /\ Len(done) = 1
  /\ done[1] = [art |-> LargeExport, empty |-> TRUE, over |-> TRUE]
  /\ counters = [k \in {"b1"} |-> SnapshotEvery + ExtraOps]
  /\ Len(SnapshotsOf("b1")) = 1

\* socket r holds the batch that handler t received
Delivered(r, t) ==
  \E i \in DOMAIN inbox[r] :
    inbox[r][i].from = tx[t].sock /\ inbox[r][i].ops = tx[t].ops

\* C15: the step that accepts a board:ops batch emits it to every other
\* socket of the room and hands it to the persistence buffer while the
\* transaction has not begun; the step in which the durable append fails
\* takes nothing back: the peers hold the batch, the buffer is as it was, the
\* sender gets {ok: false} and its socket data and room are unchanged.
C15_BroadcastFirst ==
  [][/\ \A s \in Sockets, p \in Payloads :
          OpsReceive(s, p) =>
            LET b == sock[s].boardId IN
              /\ \A r \in Sockets \ {s} :
                   b \in room[r] =>
                     /\ Len(inbox'[r]) = Len(inbox[r]) + 1
                     /\ inbox'[r][Len(inbox'[r])].from = s
                     /\ inbox'[r][Len(inbox'[r])].ops = p.ops
              /\ b \in DOMAIN buffers'
              /\ buffers'[b].ops =
                   (IF b \in DOMAIN buffers THEN buffers[b].ops ELSE <<>>) \o p.ops
              /\ storeVars' = storeVars
              /\ \E t \in TxIds : tx[t].pc = "idle" /\ tx'[t].pc = "start"
                                  /\ tx'[t].sock = s /\ tx'[t].writes = <<>>
     /\ \A t \in TxIds :
          (tx[t].pc # "idle" /\ tx'[t].pc = "idle" /\ ~EndsOk(t)) =>
            /\ lastAck'[tx[t].sock] = AckFailed
            /\ inbox' = inbox /\ buffers' = buffers
            /\ sock' = sock /\ room' = room
            /\ \A r \in Sockets \ {tx[t].sock} :
                 tx[t].boardId \in room[r] => Delivered(r, t)]_vars

\* the editor's batch [x3, null] failed: the owner holds it, the editor got
\* the error and is still joined to b1 as editor
C15_Witness ==
  /\ lastAck["s2"] = AckFailed
  /\ \E i \in DOMAIN inbox["s1"] :
       inbox["s1"][i].from = "s2" /\ inbox["s1"][i].ops = <<Op(3, 3, 1), NullItem>>
  /\ sock["s2"] = [userId |-> "u2", boardId |-> "b1", role |-> "editor"]
  /\ "b1" \in room["s2"]
  /\ \A t \in TxIds : tx[t].pc = "idle"

\* C16: a board:ops submission of an owner or editor whose ops is not a list
\* changes nothing: neither the step that receives it nor a step of its
\* handler emits to a peer, touches the persistence buffer, the operation
\* log, the snapshots or the counters, and the handler ends with {ok: false}.
C16_MalformedRejected ==
  [][/\ \A s \in Sockets, p \in Payloads :
          (BoardOpsEvent(s, p) /\ p.typ # "array" /\ CanWrite(s)
             /\ sock[s].boardId # NoBoard)
            => (inbox' = inbox /\ buffers' = buffers /\ storeVars' = storeVars)
     /\ \A t \in TxIds :
          (tx[t].pc # "idle" /\ tx[t].typ # "array" /\ tx'[t] # tx[t])
            => /\ storeVars' = storeVars /\ inbox' = inbox /\ buffers' = buffers
               /\ tx'[t].pc = "idle" => lastAck'[tx[t].sock] = AckFailed]_vars

\* C17: when the checkpoint that a batch triggers at the 200-operation
\* boundary fails to be created, the operations of the batch stay in the log
\* with their sequence numbers and the snapshots of the board are as before.
C17_OpsKeptWithoutCheckpoint ==
  [][\A t \in TxIds :
       (CheckpointFails(t) /\ tx[t].writes # <<>>) =>
         /\ boardOps' = boardOps \o tx[t].writes
         /\ snapshots' = snapshots]_vars

\* C18: a board never has more than one pending flush timer, whatever the
\* order of enqueues, timer firings and flushes in progress; a timer is
\* pending exactly when the buffer of the board exists.
C18_OneTimer ==
  \A b \in BoardIds :
    /\ timers[b] <= 1
    /\ timers[b] = 1 <=> b \in DOMAIN buffers

\* two batches were enqueued for b1 before its timer fired: one buffer holds
\* both, and one timer is pending
C18_Witness ==
  /\ "b1" \in DOMAIN buffers /\ Len(buffers["b1"].ops) >= 3
  /\ timers["b1"] = 1

OpsWithId(ops, id) == {i \in DOMAIN ops : ops[i].id = id}

\* C19: the write of a flush stores the merge of the cached operations the
\* flush read and the operations it took from the buffer: one entry per
\* client-supplied id of either list, for each id an entry with the greatest
\* timestamp, a buffered one when a buffered entry has that timestamp, and
\* the entries in ascending timestamp order.
C19_FlushMerges ==
  [][\A f \in FlushIds :
       FlushWrite(f) /\ flush[f].boardId \in boardExists =>
         LET cached == flush[f].cOps
             buffered == flush[f].ops
             all == cached \o buffered
             out == docOps'[flush[f].boardId]
         IN /\ {out[i].id : i \in DOMAIN out} = {all[i].id : i \in DOMAIN all}
            /\ \A i, j \in DOMAIN out : out[i].id = out[j].id => i = j
            /\ \A i \in DOMAIN out :
                 /\ \E k \in DOMAIN all : all[k] = out[i]
                 /\ \A k \in OpsWithId(all, out[i].id) : all[k].ts <= out[i].ts
                 /\ (\E k \in OpsWithId(buffered, out[i].id) :
                        buffered[k].ts = out[i].ts)
                    => \E k \in DOMAIN buffered : buffered[k] = out[i]
            /\ \A i, j \in DOMAIN out : i < j => out[i].ts <= out[j].ts]_vars

\* a flush that read x2 at ts 1 and x1 at ts 2 from the cache and took x1 at
\* ts 2 and x2 at ts 3 from the buffer has written the two buffered entries
C19_Witness ==
  \E f \in FlushIds :
    /\ flush[f].pc = "idle"
    /\ flush[f].cOps = <<Op(2, 2, 1), Op(1, 1, 2)>>
    /\ flush[f].ops = <<Op(3, 1, 2), Op(1, 2, 3)>>
    /\ docOps["b1"] = <<Op(3, 1, 2), Op(1, 2, 3)>>

ExportAnswered(u) == lastResp[u].route = "export" /\ lastResp[u].status = 200

MaxVersion(b) ==
  LET vs == {0} \cup {SnapshotsOf(b)[i].version : i \in DOMAIN SnapshotsOf(b)}
  IN CHOOSE v \in vs : \A w \in vs : w <= v

\* C14: the export read of the snapshot records takes the highest version of
\* the board (0 without a record), and the artifact answered to a member
\* holds every operation record of the board once in ascending seq order,
\* that version as baseVersion and as snapshot the state of the latest record,
\* or the cached document state the handler read when there is no record.
C14_ExportContents ==
  [][\A h \in HttpIds :
       /\ ExportSnap(h) => http'[h].version = MaxVersion(http[h].boardId)
       /\ ExportOps(h) =>
            LET body == lastResp'[http[h].user].body
                log == OpsOf(boardOps, http[h].boardId)
            IN /\ Len(body.ops) = Len(log)
               /\ Range(body.ops) = Range(log)
               /\ \A i, j \in DOMAIN body.ops :
                    i < j => body.ops[i].seq <= body.ops[j].seq
               /\ body.baseVersion = http[h].version
               /\ body.snapshot = IF http[h].snapFound THEN http[h].snapTl
                                  ELSE http[h].rTl]_vars

JoinAcked(s) == lastAck[s].ev = "room:join" /\ lastAck[s].ok

\* C20: a room:join that succeeds leaves the socket with role owner or editor
\* only if the socket's user is authenticated and the board the join read
\* lists that user with that role, and with role viewer otherwise; a socket
\* without user joins only with a non-empty token equal to the board's
\* public-viewer token.
C20_JoinRole ==
  [][\A s \in Sockets, k \in 1 .. MaxPending :
       JoinFinish(s, k) /\ JoinAcked(s)' =>
         LET p == joinp[s][k]
             u == sock[s].userId
             role == sock'[s].role
         IN /\ role \in Roles
            /\ lastAck'[s].info = role
            /\ role \in {"owner", "editor"} =>
                 /\ u # NoUser
                 /\ \E i \in DOMAIN p.members : p.members[i] = Member(u, role)
            /\ u = NoUser =>
                 /\ p.token # ""
                 /\ p.token = publicViewerToken[p.boardId]
                 /\ publicViewerToken[p.boardId] # ""]_vars

\* the owner and an editor joined b1 with their roles, and a socket without
\* user joined it as viewer with the board's token
C20_Witness ==
  /\ sock["s1"].boardId = "b1" /\ sock["s1"].role = "owner"
  /\ lastAck["s2"] = Ack("room:join", TRUE, "editor")
  /\ sock["s3"].userId = NoUser /\ sock["s3"].boardId = "b1"
  /\ lastAck["s3"] = Ack("room:join", TRUE, "viewer")

BoardRoom(s) == IF sock[s].boardId = NoBoard THEN {} ELSE {sock[s].boardId}

\* C21: after every step each socket is in at most one board room, the room
\* of its current board, also when its room:join lookups overlap and end in
\* any order; a join that is refused or fails leaves room, board and role of
\* the socket as they were.
C21_OneRoom ==
  [][/\ \A s \in Sockets : room'[s] = BoardRoom(s)' /\ Cardinality(room'[s]) <= 1
     /\ \A s \in Sockets, i \in 1 .. MaxPending :
          (JoinFail(s, i) \/ (JoinFinish(s, i) /\ ~lastAck'[s].ok))
            => room'[s] = room[s] /\ sock'[s] = sock[s]]_vars

\* s3, without user, sits in the room of b1 after a join of b2 was refused;
\* s1 moved from one board to the other while another of its joins waits
C21_Witness ==
  /\ room["s3"] = {"b1"} /\ lastAck["s3"] = Ack("room:join", FALSE, "Unauthenticated")
  /\ room["s1"] = {"b2"} /\ joinp["s1"] # <<>> /\ joinp["s1"][1].boardId = "b1"
  /\ njoin = 0

\* a snapshot request ends with one response appended to the requester's
\* inbox and nothing sent to any other socket, carrying the document of the
\* board the socket was in when it asked, as the handler read it (as stored,
\* or with its drawing sanitised), and changes no
\* board, log, buffer, room or role; a room:join sends nothing
SnapshotAnswered(sanitised) ==
  /\ \A s \in Sockets, i \in 1 .. MaxPending :
       SnapshotRespond(s, i) =>
         LET p == snapq[s][i]
             tl == IF sanitised THEN sanitizeTlSnapshotDeep(p.tl) ELSE p.tl
         IN /\ Len(inbox'[s]) = Len(inbox[s]) + 1
            /\ SubSeq(inbox'[s], 1, Len(inbox[s])) = inbox[s]
            /\ inbox'[s][Len(inbox'[s])].typ = "board:snapshot:response"
            /\ inbox'[s][Len(inbox'[s])].boardId = p.boardId
            /\ inbox'[s][Len(inbox'[s])].doc = [tldraw |-> tl, ops |-> p.ops]
            /\ \A o \in Sockets \ {s} : inbox'[o] = inbox[o]
            /\ UNCHANGED <<boardVars, storeVars, bufVars, sock, room>>
  /\ \A s \in Sockets :
       SnapshotRequest(s) => UNCHANGED <<boardVars, storeVars, bufVars, sock, room, inbox>>
  /\ \A s \in Sockets, i \in 1 .. MaxPending :
       JoinFinish(s, i) =>
         \A o \in Sockets :
           \A k \in DOMAIN inbox'[o] \ DOMAIN inbox[o] :
             inbox'[o][k].typ # "board:snapshot:response"

C23_CounterNeverDecreases ==
  [][\A b \in BoardIds : CounterVal(counters', b) >= CounterVal(counters, b)]_vars

\* C24: whenever a committing batch takes the log of its board from fewer than
\* 200*m records to at least 200*m records, for some m >= 1, whether the log
\* ends on the multiple or beyond it, the commit adds a snapshot record for
\* the board.
C24_CheckpointEvery200 ==
  [][\A t \in TxIds :
       LET b == tx[t].boardId
           before == Len(LogOf(b))
           after == Len(OpsOf(boardOps', b))
       IN (EndsOk(t) /\ before \div SnapshotEvery < after \div SnapshotEvery) =>
            Len(SnapsOf(snapshots', b)) > Len(SnapshotsOf(b))]_vars

\* C25: a batch that commits without adding a record to the log of its board
\* (an empty list, or only operations already logged) adds no snapshot record.
C25_NoOpBatchNoSnapshot ==
  [][\A t \in TxIds :
       (EndsOk(t) /\ OpsOf(boardOps', tx[t].boardId) = LogOf(tx[t].boardId)) =>
         snapshots' = snapshots]_vars

\* the opIds that the clients chose for the operations of a batch
ClientIds(ops) == {ops[i].opId : i \in DOMAIN ops} \ {NoId}

\* C26: when a socket sent batch A and then batch B for the same board (the
\* other sockets of the room received them in that order), every logged
\* record of an operation that only A carries has a smaller sequence number
\* than every logged record of an operation that only B carries.
C26_AuthorOrder ==
  \A s \in Sockets, o \in Sockets :
    \A i, j \in DOMAIN inbox[o] :
      LET A == inbox[o][i]
          B == inbox[o][j]
      IN (i < j /\ A.from = s /\ B.from = s /\ A.boardId = B.boardId) =>
           \A ra, rb \in Range(LogOf(A.boardId)) :
             (/\ ra.opId \in ClientIds(A.ops) \ ClientIds(B.ops)
              /\ rb.opId \in ClientIds(B.ops) \ ClientIds(A.ops))
               => ra.seq < rb.seq

\* C27: in every state, also in the middle of a run of the restore tool and
\* with batches in progress, the sequence counter of a board (0 when it has
\* none) is at least the largest seq of the operation records of the board.
C27_CounterCoversLog ==
  \A b \in BoardIds :
    \A r \in Range(LogOf(b)) : r.seq <= CounterVal(counters, b)

\* C28: no two operation records of a board carry the same seq, also after
\* the restore tool has merged an export into a board that already had
\* records with other opIds, and for the batches logged afterwards.
C28_SeqUnique ==
  \A b \in BoardIds :
    \A i, j \in DOMAIN LogOf(b) :
      i # j => LogOf(b)[i].seq # LogOf(b)[j].seq

\* the operations waiting in the buffer of board b
Buffered(b) == IF b \in DOMAIN buffers THEN buffers[b].ops ELSE <<>>

\* a write into the buffer appends to what is waiting; it arms the timer of
\* the board when the board had no buffer and leaves the timers alone when it
\* had one
WriteKeepsTimer ==
  \A s \in Sockets, p \in BufferPayloads :
    OpsReceive(s, p) =>
      LET b == sock[s].boardId IN
        /\ b \in DOMAIN buffers'
        /\ buffers'[b].ops = Buffered(b) \o p.ops
        /\ timers' = IF b \in DOMAIN buffers THEN timers
                     ELSE [timers EXCEPT ![b] = 1]
        /\ flush' = flush

\* the timer callback takes everything that is waiting for the board into one
\* flush payload and leaves neither buffer nor timer behind
FireTakesAll ==
  \A b \in BoardIds :
    (TimerFire(b) /\ b \in DOMAIN buffers) =>
      /\ b \notin DOMAIN buffers' /\ timers'[b] = 0
      /\ \E f \in FlushIds :
           /\ flush[f].pc = "idle" /\ flush'[f].pc = "read"
           /\ flush'[f].boardId = b
           /\ flush'[f].ops = buffers[b].ops
           /\ flush'[f].snapshot = buffers[b].snapshot
           /\ \A g \in FlushIds \ {f} : flush'[g] = flush[g]

\* a flush in progress keeps its payload, and its steps touch neither the
\* buffers nor the timers
FlushKeepsPayload ==
  \A f \in FlushIds :
    (flush[f].pc # "idle" /\ flush'[f] # flush[f]) =>
      /\ buffers' = buffers /\ timers' = timers
      /\ flush'[f].pc # "idle" =>
           flush'[f].ops = flush[f].ops /\ flush'[f].boardId = flush[f].boardId

\* nothing is left to flush: no buffer, no timer, no flush in progress
Flushed ==
  /\ buffers = NoBuffers
  /\ \A b \in BoardIds : timers[b] = 0
  /\ \A f \in FlushIds : flush[f].pc = "idle"

\* C29: the first write into an empty buffer arms the one timer of the board
\* and later writes leave it alone; when the timer fires the whole buffer goes
\* into one flush payload and is removed, so that an operation handed to the
\* buffer is in exactly one payload; and when timers fire and awaits settle,
\* whatever waits in a buffer or in a flush in progress is eventually flushed:
\* no buffer, no timer and no flush in progress is left.
C29_FlushedOnce ==
  /\ [][WriteKeepsTimer /\ FireTakesAll /\ FlushKeepsPayload]_vars
  /\ ~Flushed ~> Flushed

\* the operations of two batches left the buffer of b1 together, in one
\* payload, when its timer fired
C29_Witness ==
  /\ buffers = NoBuffers /\ timers["b1"] = 0
  /\ \E f \in FlushIds :
       /\ flush[f].pc = "read" /\ flush[f].boardId = "b1"
       /\ Len(flush[f].ops) >= 3
       /\ \A g \in FlushIds \ {f} : flush[g].pc = "idle"

\* C30: when a flush fails, its payload is dropped: the slot of the flush is
\* cleared, nothing goes back into a buffer and no timer is armed, the board
\* documents and the operation log with its counter and snapshots are as
\* before, and no socket receives a message or an acknowledgment.
C30_FailedFlushDropped ==
  [][\A f \in FlushIds :
       FlushFail(f) =>
         /\ flush'[f] = IdleFlush
         /\ \A g \in FlushIds \ {f} : flush'[g] = flush[g]
         /\ buffers' = buffers /\ timers' = timers
         /\ UNCHANGED <<boardVars, storeVars, inbox, lastAck>>]_vars

\* the only batch handed to the buffer of b1, a batch without null entry, was
\* taken by a flush that failed: nothing is waiting, no flush is in progress
\* or has written, and the document of b1 is without operations
C30_Witness ==
  /\ Len(inbox["s2"]) = 1 /\ inbox["s1"] = <<>>
  /\ inbox["s2"][1].ops = <<Op(1, 1, 2), Op(2, 2, 1)>>
  /\ buffers = NoBuffers /\ timers["b1"] = 0
  /\ \A f \in FlushIds : flush[f] = IdleFlush
  /\ docOps["b1"] = <<>>

\* the ids of the operations that the sockets handed to the buffer of board b:
\* every accepted batch was broadcast to the other socket of the room
HandedIds(b) ==
  UNION {{m.ops[i].id : i \in DOMAIN m.ops} :
           m \in {x \in UNION {Range(inbox[s]) : s \in Sockets} : x.boardId = b}}

\* C31: when board b has no buffer and no flush in progress, and no flush
\* failed, the cached document of b holds an entry for every operation id
\* that was handed to the buffer of b.
C31_NoFlushedOpLost ==
  \A b \in boardExists :
    (b \notin DOMAIN buffers /\ \A f \in FlushIds : flush[f].pc = "idle") =>
      HandedIds(b) \subseteq {docOps[b][i].id : i \in DOMAIN docOps[b]}

\* the leave notification of socket s for board b
LeaveOf(s, b) == [typ |-> "presence:leave", boardId |-> b, socketId |-> s]

\* C32: when a socket joined to board P successfully joins another board Q,
\* every socket that remains in the room of P receives a leave notification
\* for that socket.
C32_LeaveNotified ==
  [][\A s \in Sockets, i \in 1 .. MaxPending :
       LET P == sock[s].boardId IN
         (JoinFinish(s, i) /\ JoinAcked(s)' /\ P # NoBoard /\ sock'[s].boardId # P) =>
           \A o \in Sockets \ {s} :
             P \in room[o] => inbox'[o] = Append(inbox[o], LeaveOf(s, P))]_vars

(* ------------------- board:ops in a room of two boards ------------------ *)
\* the payloads of board:ops with the boardId a client may put in them; the
\* handler destructures ops and snapshot only
NamedPayloads ==
  {[ops |-> p.ops, snapshot |-> p.snapshot, typ |-> p.typ, boardId |-> n] :
     p \in {q \in Payloads : q.typ = "array" /\ Len(q.ops) \in {0, 2}},
     n \in BoardIds \cup {NoBoard}}

\* s1 owns b1; s2 is in b1 as editor or in b2 as owner; s3 watches b1 through
\* the public-viewer token or has joined nothing
InitBroadcast ==
  /\ boardExists = BoardIds
  /\ members = [b \in BoardIds |-> IF b = "b1"
         THEN <<Member("u1", "owner"), Member("u2", "editor")>>
         ELSE <<Member("u2", "owner")>>]
  /\ boardV = [b \in BoardIds |-> 0]
  /\ docTl = [b \in BoardIds |-> Null]
  /\ docOps = [b \in BoardIds |-> <<>>]
  /\ publicViewerToken = [b \in BoardIds |-> IF b = "b1" THEN "t1" ELSE ""]
  /\ chat = [b \in BoardIds |-> <<>>]
  /\ InitStore(0) /\ InitIdle
  /\ Quota(MaxSubmits, 1, 0, 0)
  /\ \E b2 \in BoardIds, j3 \in BOOLEAN :
       /\ sock = [s \in Sockets |->
            CASE s = "s1" -> [userId |-> "u1", boardId |-> "b1", role |-> "owner"]
              [] s = "s2" -> [userId |-> "u2", boardId |-> b2,
                              role |-> IF b2 = "b1" THEN "editor" ELSE "owner"]
              [] OTHER -> [userId |-> NoUser,
                           boardId |-> IF j3 THEN "b1" ELSE NoBoard,
                           role |-> "viewer"]]
       /\ room = [s \in Sockets |-> IF sock[s].boardId = NoBoard THEN {}
                                    ELSE {sock[s].boardId}]

NextBroadcast ==
  \/ \E s \in Sockets, p \in NamedPayloads : BoardOpsEvent(s, p)
  \/ \E t \in TxIds : TxBegin(t)
  \/ \E t \in TxIds : TxRun(t)
  \/ \E t \in TxIds : TxCommit(t)
  \/ \E t \in TxIds : TxAbort(t)
  \/ \E s \in Sockets, b \in BoardIds : RoomJoin(s, b, "t1")
  \/ \E s \in Sockets, i \in 1 .. MaxPending : JoinFinish(s, i)

SpecBroadcast == InitBroadcast /\ [][NextBroadcast]_vars

\* the message socket s emits for payload p: the boardId is the socket's
OpsMessage(s, p) ==
  [from |-> s, boardId |-> sock[s].boardId, ops |-> p.ops,
   snapshot |-> p.snapshot, typ |-> p.typ]

\* C33: a socket is in the room of the board it joined and in no other; the
\* step that accepts a board:ops batch from socket s appends one message, with
\* the ops as they were received and the boardId of the socket's joined board
\* whatever boardId the payload names, at the end of the inbox of every other
\* socket that is in that room at that moment, and leaves the inbox of the
\* sender and of every socket outside the room as it was; appending at the end
\* is what keeps successive batches in arrival order.
C33_BroadcastToRoom ==
  /\ [](\A s \in Sockets : room[s] = {sock[s].boardId} \ {NoBoard})
  /\ [][\A s \in Sockets, p \in NamedPayloads :
          OpsReceive(s, p) =>
            \A r \in Sockets :
              inbox'[r] = IF r # s /\ sock[s].boardId \in room[r]
                          THEN Append(inbox[r], OpsMessage(s, p))
                          ELSE inbox[r]]_vars

\* s1 sent two different batches in b1 while s2 was in b2: s3 holds them in
\* arrival order, s1 and s2 hold nothing
C33_Witness ==
  /\ Len(inbox["s3"]) = 2
  /\ inbox["s3"][1].from = "s1" /\ inbox["s3"][2].from = "s1"
  /\ inbox["s3"][1].boardId = "b1" /\ inbox["s3"][2].boardId = "b1"
  /\ inbox["s3"][1].ops = <<Op(1, 1, 1), Op(2, 2, 1)>>
  /\ inbox["s3"][2].ops = <<Op(3, 3, 1), NullItem>>
  /\ inbox["s1"] = <<>> /\ inbox["s2"] = <<>>
  /\ room["s2"] = {"b2"} /\ room["s3"] = {"b1"}

(* -------------- board:ops while the member list changes --------------- *)
AuthPayloads == {q \in Payloads : q.typ = "array" /\ Len(q.ops) = 2}

\* the sockets of u1 (owner), u2 (editor) and u3 (viewer) have joined b1; the
\* owner may change a role or remove a member, a socket may join again
InitAuth ==
  /\ InitBoards /\ InitStore(0) /\ InitIdle
  /\ Quota(MaxSubmits, 1, 1, 0)
  /\ sock = [s \in Sockets |->
       CASE s = "s1" -> [userId |-> "u1", boardId |-> "b1", role |-> "owner"]
         [] s = "s2" -> [userId |-> "u2", boardId |-> "b1", role |-> "editor"]
         [] OTHER -> [userId |-> "u3", boardId |-> "b1", role |-> "viewer"]]
  /\ room = [s \in Sockets |-> {"b1"}]

NextAuth ==
  \/ \E s \in Sockets, p \in AuthPayloads : BoardOpsEvent(s, p)
  \/ \E t \in TxIds : TxBegin(t)
  \/ \E t \in TxIds : TxRun(t)
  \/ \E t \in TxIds : TxCommit(t)
  \/ \E t \in TxIds : TxAbort(t)
  \/ \E s \in Sockets : RoomJoin(s, "b1", "")
  \/ \E s \in Sockets, i \in 1 .. MaxPending : JoinFinish(s, i)
  \/ \E t \in Users, r \in Roles : PatchMembers("u1", "b1", t, r)
  \/ \E h \in HttpIds : PatchMembersSave(h)
  \/ \E t \in Users : DeleteMember("u1", "b1", t)
  \/ \E h \in HttpIds : DeleteMemberSave(h)

SpecAuth == InitAuth /\ [][NextAuth]_vars

\* C34: the role kept on a socket changes only in the step that ends a
\* successful room:join of that socket, so no change of the member list
\* touches it; and a board:ops event of a joined socket is accepted exactly
\* when that stored role is owner or editor, whatever the member list says at
\* that moment.
C34_RoleFromJoin ==
  [][/\ \A s \in Sockets :
          sock'[s] # sock[s] =>
            \E i \in 1 .. MaxPending : JoinFinish(s, i) /\ JoinAcked(s)'
     /\ \A s \in Sockets, p \in AuthPayloads :
          (BoardOpsEvent(s, p) /\ sock[s].boardId # NoBoard) =>
            (OpsReceive(s, p) <=> sock[s].role \in {"owner", "editor"})]_vars

\* u2 is no longer a member of b1; its socket, joined as editor before, has
\* had a batch accepted and its next batch will be accepted as well
C34_Witness ==
  /\ ~IsMember(members["b1"], "u2")
  /\ sock["s2"].role = "editor"
  /\ \E t \in TxIds : tx[t].pc = "start" /\ tx[t].sock = "s2"
  /\ ENABLED (\E p \in AuthPayloads : OpsReceive("s2", p))

(* ---------------- the three writers of snapshot records ---------------- *)
ChecksumPayloads ==
  {q \in Payloads : q.typ = "array" /\ q.snapshot = Null /\ Len(q.ops) \in {0, 2}}

\* b1 with or without a cached drawing; one board:ops batch, one "snapshot
\* now" request and one run of the restore tool
InitChecksum ==
  /\ boardExists = {"b1"}
  /\ members = [b \in BoardIds |-> IF b = "b1"
         THEN <<Member("u1", "owner"), Member("u2", "editor")>> ELSE <<>>]
  /\ boardV = [b \in BoardIds |-> 0]
  /\ \E d \in {Null, "raw"} : docTl = [b \in BoardIds |-> IF b = "b1" THEN d ELSE Null]
  /\ docOps = [b \in BoardIds |-> <<>>]
  /\ publicViewerToken = [b \in BoardIds |-> ""]
  /\ chat = [b \in BoardIds |-> <<>>]
  /\ InitStore(0) /\ InitIdle
  /\ Quota(1, 0, 1, MaxRestores)
  /\ sock = [s \in Sockets |->
       CASE s = "s1" -> [userId |-> "u1", boardId |-> "b1", role |-> "owner"]
         [] s = "s2" -> [userId |-> "u2", boardId |-> "b1", role |-> "editor"]
         [] OTHER -> [userId |-> NoUser, boardId |-> NoBoard, role |-> "viewer"]]
  /\ room = [s \in Sockets |-> IF sock[s].boardId = NoBoard THEN {}
                               ELSE {sock[s].boardId}]

NextChecksum ==
  \/ \E p \in ChecksumPayloads : OpsReceive("s1", p)
  \/ \E t \in TxIds : TxBegin(t)
  \/ \E t \in TxIds : TxRun(t)
  \/ \E t \in TxIds : TxCommit(t)
  \/ \E t \in TxIds : TxAbort(t)
  \/ SnapshotRead("u1", "b1")
  \/ \E h \in HttpIds : SnapshotCount(h)
  \/ \E h \in HttpIds : SnapshotCreate(h)
  \/ \E h \in HttpIds : SnapshotSave(h)
  \/ NextRestore

SpecChecksum == InitChecksum /\ [][NextChecksum]_vars

\* C35: every record of the snapshot collection, whoever wrote it, holds the
\* hash of the drawing held in that same record, and a step only appends to the
\* collection: the records it held before stay as they were, in place.
C35_ChecksumOfRecord ==
  /\ [](\A i \in DOMAIN snapshots :
          snapshots[i].checksum = hashObj(snapshots[i].tldraw))
  /\ [][/\ Len(snapshots') >= Len(snapshots)
        /\ SubSeq(snapshots', 1, Len(snapshots)) = snapshots]_vars

\* the checkpoint of a batch, "snapshot now" and the restore tool have each
\* written a record of b1: an empty drawing, a sanitised one and a raw one
C35_Witness ==
  /\ Len(SnapsOf(snapshots, "b1")) = 3
  /\ {r.tldraw : r \in Range(snapshots)} = {Null, "clean", "raw"}
  /\ {r.checksum : r \in Range(snapshots)} = {"sha({})", "sha(clean)", "sha(raw)"}
  /\ nsub = 0 /\ nreq = 0 /\ nrest = 0

\* C36: the artifact answered by an export carries as checksum the hash of the
\* snapshot it carries; an artifact without snapshot carries the empty string
\* or the hash of the absent state.
C36_ArtifactChecksum ==
  [][\A h \in HttpIds :
       ExportOps(h) =>
         LET body == lastResp'[http[h].user].body
         IN IF body.snapshot = Null
            THEN body.checksum \in {"", hashObj(Null)}
            ELSE body.checksum = hashObj(body.snapshot)]_vars

(* ------------- every writer and reader of the operation log ------------ *)
\* b1 with one logged operation, or two short of the checkpoint boundary; one
\* batch, its flush and checkpoint, one export and one run of the restore tool
InitLog ==
  /\ InitBoards /\ InitIdle
  /\ \E h \in {1, SnapshotEvery - 2} : InitStore(h)
  /\ Quota(1, 0, 1, MaxRestores)
  /\ sock = [s \in Sockets |->
       CASE s = "s1" -> [userId |-> "u1", boardId |-> "b1", role |-> "owner"]
         [] s = "s2" -> [userId |-> "u2", boardId |-> "b1", role |-> "editor"]
         [] OTHER -> [userId |-> NoUser, boardId |-> NoBoard, role |-> "viewer"]]
  /\ room = [s \in Sockets |-> IF sock[s].boardId = NoBoard THEN {}
                               ELSE {sock[s].boardId}]

NextLog ==
  \/ \E s \in Sockets, p \in AuthPayloads : BoardOpsEvent(s, p)
  \/ \E t \in TxIds : TxBegin(t)
  \/ \E t \in TxIds : TxRun(t)
  \/ \E t \in TxIds : TxCommit(t)
  \/ \E t \in TxIds : TxAbort(t)
  \/ NextFlush
  \/ ExportRead("u1", "b1")
  \/ \E h \in HttpIds : ExportSnap(h)
  \/ \E h \in HttpIds : ExportOps(h)
  \/ \E a \in Artifacts : RestoreFind(a)
  \/ RestoreBoard
  \/ RestoreCount
  \/ RestoreSnapshot
  \/ RestoreOpFind
  \/ RestoreOpCreate
  \/ RestoreCounterFind
  \/ RestoreCounterWrite

SpecLog == InitLog /\ [][NextLog]_vars

\* C37: a step, whichever handler or tool takes it, leaves every record the
\* operation log holds in place with its board, seq, opId and author: the log
\* after the step is the log before it followed by the records the step adds.
C37_LogOnlyGrows ==
  [][/\ Len(boardOps') >= Len(boardOps)
     /\ SubSeq(boardOps', 1, Len(boardOps)) = boardOps]_vars

\* the batch [x1, x2] was logged after SnapshotEvery - 2 operations and
\* checkpointed, the restore tool added a record of its artifact behind it,
\* and the flush and the export have run
C37_Witness ==
  /\ Len(OpsOf(boardOps, "b1")) > SnapshotEvery
  /\ boardOps[SnapshotEvery].authorId = "u1" /\ boardOps[SnapshotEvery].opId = 2
  /\ boardOps[SnapshotEvery + 1].authorId = "u2"
  /\ snapshots # <<>>
  /\ docOps["b1"] # <<>>
  /\ lastResp["u1"].route = "export" /\ lastResp["u1"].status = 200
  /\ done # <<>> /\ done[Len(done)].over

UserIds(ms) == {ms[i].userId : i \in DOMAIN ms}

\* C38: the step in which the restore tool saves a board that existed leaves
\* the board with one member entry for every user id found in the members the
\* tool read or in the artifact's members, and with no other entry; a user
\* the artifact lists has the role the artifact gives.
C38_MembersMerged ==
  [][(RestoreBoard /\ rs.found /\ rs'.pc = "count") =>
       LET new == members'[rs.art.boardId] IN
         /\ UserIds(new) = UserIds(rs.rMembers) \cup UserIds(rs.art.members)
         /\ Len(new) = Cardinality(UserIds(new))
         /\ \A m \in Range(rs.art.members) :
              RoleOf(new, m.userId) = RoleOf(rs.art.members, m.userId)]_vars

\* the artifact that lists u2 as owner and u1 as editor was merged into b1,
\* which listed u1 as owner: u1 is editor now, u3 is kept
C38_Witness ==
  /\ rs.pc = "count" /\ rs.found
  /\ rs.art.members = <<Member("u2", "owner"), Member("u1", "editor")>>
  /\ RoleOf(rs.rMembers, "u1") = "owner"
  /\ RoleOf(members["b1"], "u1") = "editor"
  /\ RoleOf(members["b1"], "u2") = "owner"
  /\ IsMember(members["b1"], "u3")
  /\ Len(members["b1"]) = 3

(* ------------------------- socket: chat:message ----------------------- *)
\* `.slice(-2000)`
ChatCap == 2000
LastMessages(list) ==
  IF Len(list) > ChatCap THEN SubSeq(list, Len(list) - ChatCap + 1, Len(list))
  ELSE list

\* socket.on('chat:message') up to `await Board.findByIdAndUpdate`: the board
\* is the socket's or, for a socket without one, the one the message names;
\* the handler has read the board and built `next`
ChatRead(s, msg, mb) ==
  /\ nsub > 0
  /\ Len(chatp[s]) < MaxPending
  /\ nsub' = nsub - 1
  /\ LET b == IF sock[s].boardId # NoBoard THEN sock[s].boardId ELSE mb IN
       IF b = NoBoard \/ b \notin boardExists
       THEN /\ lastAck' = [lastAck EXCEPT ![s] = Ack("chat:message", FALSE, "")]
            /\ UNCHANGED chatp
       ELSE /\ chatp' = [chatp EXCEPT ![s] = Append(@,
                  [boardId |-> b, clean |-> msg,
                   next |-> LastMessages(Append(chat[b], msg))])]
            /\ UNCHANGED lastAck
  /\ UNCHANGED <<boardVars, httpVars, restVars, storeVars, sock, room, joinp, snapq,
                 presenceByBoard, inbox, njoin, bufVars, tx, uuid>>

\* Board.findByIdAndUpdate(boardId, { $set: { chat: next } }), then the
\* message goes to the room and the sender is acknowledged
ChatUpdate(s, i) ==
  /\ i \in DOMAIN chatp[s]
  /\ LET p == chatp[s][i] IN
       /\ chat' = [chat EXCEPT ![p.boardId] = p.next]
       /\ inbox' = [r \in Sockets |->
            IF p.boardId \in room[r]
            THEN Append(inbox[r], [typ |-> "chat:message", boardId |-> p.boardId,
                                   clean |-> p.clean])
            ELSE inbox[r]]
  /\ chatp' = [chatp EXCEPT ![s] = RemoveAt(@, i)]
  /\ lastAck' = [lastAck EXCEPT ![s] = Ack("chat:message", TRUE, "")]
  /\ UNCHANGED <<boardExists, members, boardV, docTl, docOps, publicViewerToken,
                 httpVars, restVars, storeVars, sock, room, joinp, snapq,
                 presenceByBoard, nsub, njoin, bufVars, tx, uuid>>

\* the chat of b1 after ChatCap + 2 messages by u1
FullChat == [i \in 1 .. ChatCap |-> ChatMsg(i + 2, "u1", "hi")]

\* two messages u2 may send next
ChatInputs == {ChatMsg(ChatCap + 3, "u2", "hi"), ChatMsg(ChatCap + 4, "u2", "yo")}

\* an export of b1 taken after its first two messages, and the export of a
\* board with three messages that the database does not hold
ChatArtifacts ==
  { [Artifact("b1", Null, <<AOp(1, 1, "u1")>>, <<Member("u1", "owner")>>)
       EXCEPT !.chat = <<ChatMsg(1, "u1", "hi"), ChatMsg(2, "u1", "hi")>>],
    [Artifact("b2", "clean", <<AOp(1, 1, "u2")>>, <<Member("u2", "owner")>>)
       EXCEPT !.chat = <<ChatMsg(1, "u2", "hi"), ChatMsg(2, "u2", "yo"),
                         ChatMsg(3, "u2", "hi")>>] }

\* b1 with a full chat or one message short of it; s1 and s2 have joined it
InitChat ==
  /\ boardExists = {"b1"}
  /\ members = [b \in BoardIds |-> IF b = "b1"
         THEN <<Member("u1", "owner"), Member("u2", "editor")>> ELSE <<>>]
  /\ boardV = [b \in BoardIds |-> 0]
  /\ docTl = [b \in BoardIds |-> Null]
  /\ docOps = [b \in BoardIds |-> <<>>]
  /\ publicViewerToken = [b \in BoardIds |-> ""]
  /\ \E c \in {FullChat, Tail(FullChat)} :
       chat = [b \in BoardIds |-> IF b = "b1" THEN c ELSE <<>>]
  /\ InitStore(0) /\ InitIdle
  /\ Quota(MaxSubmits, 0, 0, MaxRestores)
  /\ sock = [s \in Sockets |->
       CASE s = "s1" -> [userId |-> "u1", boardId |-> "b1", role |-> "owner"]
         [] s = "s2" -> [userId |-> "u2", boardId |-> "b1", role |-> "editor"]
         [] OTHER -> [userId |-> NoUser, boardId |-> NoBoard, role |-> "viewer"]]
  /\ room = [s \in Sockets |-> IF sock[s].boardId = NoBoard THEN {}
                               ELSE {sock[s].boardId}]

NextChat ==
  \/ \E s \in Sockets, m \in ChatInputs, mb \in {NoBoard, "b1"} : ChatRead(s, m, mb)
  \/ \E s \in Sockets, i \in 1 .. MaxPending : ChatUpdate(s, i)
  \/ \E a \in ChatArtifacts : RestoreFind(a)
  \/ RestoreBoard
  \/ RestoreCount
  \/ RestoreSnapshot
  \/ RestoreOpFind
  \/ RestoreOpCreate
  \/ RestoreCounterFind
  \/ RestoreCounterWrite

SpecChat == InitChat /\ [][NextChat]_vars

\* C39: the chat of every board holds at most ChatCap entries.
C39_ChatCapped == \A b \in BoardIds : Len(chat[b]) <= ChatCap

\* C40: the member list of every board holds at most one entry per user id.
C40_OneEntryPerUser ==
  \A b \in BoardIds : Len(members[b]) = Cardinality(UserIds(members[b]))

====
